---- MODULE Spec2Model ----
(***************************************************************************)
(* Transfer pipeline of open-workshop-storage (src/main.py, src/tools.py): *)
(* the job registry JOB_STATE, the per-job meta.json, the files under      *)
(* <MAIN_DIR>/temp/<job_id>/ and <MAIN_DIR>/<type>/, and the handlers      *)
(* transfer_start (+ _run_download_job), transfer_upload, transfer_ws,     *)
(* transfer_repack (+ _run_repack_job) and transfer_move, interleaved at   *)
(* their await points.                                                     *)
(***************************************************************************)
EXTENDS Integers, Sequences, FiniteSets, TLC

\* ---------------------------------------------------------------- bounds
MaxRuns == 2
MaxRepacks == 1
MaxMoves == 1
MaxSubs == 1
MaxRequests == 3
MaxActive == 2
\* a body has up to MaxChunks chunks of ChunkBytes bytes; CapBytes is the size limit
MaxChunks == 1
ChunkBytes == 2
CapBytes == 1
\* the longest of the short file names of specification SanitizeSpec
MaxNameLen == 3
\* the clock runs up to MaxClock; a token lives up to MaxTtl seconds
MaxClock == 3
MaxTtl == 2

RunIds == 1..MaxRuns
RepackIds == (MaxRuns + 1)..(MaxRuns + MaxRepacks)
Procs == RunIds \cup RepackIds
MoveIds == 1..MaxMoves
Subs == 1..MaxSubs

\* the job id every request of specification Spec carries, and its characters
J == "job_abcdef01"
JChars == << "j", "o", "b", "_", "a", "b", "c", "d", "e", "f", "0", "1" >>
Jobs == {J}
\* the sanitized source file name of specification Spec
SrcName == "a.zip"

\* Optional[int]: None is <<>>, a value n is <<n>>
NoneT == << >>
Some(n) == << n >>

\* ----------------------------------------------------------------- paths
\* A path is the sequence of its components; an absolute path given as a
\* request parameter starts with the component "/".
CWD == << "srv" >>
MAIN_DIR == << "storage" >>
ALLOWED_TYPES == {"archive", "resource", "avatar"}

IsPrefix(a, b) == Len(a) <= Len(b) /\ SubSeq(b, 1, Len(a)) = a

RECURSIVE NormFrom(_, _)
NormFrom(acc, rest) ==
    IF rest = << >> THEN acc
    ELSE LET c == Head(rest) IN
         IF c = "." \/ c = "" THEN NormFrom(acc, Tail(rest))
         ELSE IF c = ".." THEN
              NormFrom(IF acc = << >> THEN acc ELSE SubSeq(acc, 1, Len(acc) - 1), Tail(rest))
         ELSE NormFrom(Append(acc, c), Tail(rest))

\* os.path.join(a, b): an absolute b discards a
PathJoin(a, b) == IF b # << >> /\ Head(b) = "/" THEN b ELSE a \o b

\* os.path.abspath(p): relative paths are taken from the working directory,
\* then "." and ".." are resolved textually
AbsPath(p) ==
    IF p # << >> /\ Head(p) = "/" THEN NormFrom(<< >>, Tail(p))
    ELSE NormFrom(<< >>, CWD \o p)

\* a faulty variant: the check made on the joined path before it is normalised
safe_path_unnormalised(base_dir, path) ==
    LET base == AbsPath(base_dir)
        joined == base \o path
    IN [ok |-> IsPrefix(base, joined), target |-> AbsPath(PathJoin(<< "/" >> \o base, path))]

safe_path(base_dir, path) ==
    LET base == AbsPath(base_dir)
        target == AbsPath(PathJoin(<< "/" >> \o base, path))
    IN [ok |-> IsPrefix(base, target), target |-> target]

\* whether path, joined to base_dir and resolved textually, lies outside base_dir
resolves_outside(base_dir, path) ==
    ~IsPrefix(AbsPath(base_dir), AbsPath(PathJoin(<< "/" >> \o AbsPath(base_dir), path)))

ROOT == AbsPath(MAIN_DIR)
TEMP_DIR == MAIN_DIR \o << "temp" >>
job_dir(j) == safe_path(TEMP_DIR, << j >>).target
job_meta_path(j) == job_dir(j) \o << "meta.json" >>
RelPath(abs) == SubSeq(abs, Len(ROOT) + 1, Len(abs))

\* ------------------------------------------------------------ strings
\* A string given by a request is the sequence of its characters.
RECURSIVE Str(_)
Str(cs) ==
    IF cs = << >> THEN ""
    ELSE IF Len(cs) = 1 THEN cs[1]
    ELSE Str(SubSeq(cs, 1, Len(cs) \div 2)) \o Str(SubSeq(cs, Len(cs) \div 2 + 1, Len(cs)))

Lower ==
    {"a", "b", "c", "d", "e", "f", "g", "h", "i", "j", "k", "l", "m", "n", "o", "p", "q", "r",
     "s", "t", "u", "v", "w", "x", "y", "z"}
Upper ==
    {"A", "B", "C", "D", "E", "F", "G", "H", "I", "J", "K", "L", "M", "N", "O", "P", "Q", "R",
     "S", "T", "U", "V", "W", "X", "Y", "Z"}
Digits == {"0", "1", "2", "3", "4", "5", "6", "7", "8", "9"}
ALLOWED_FILENAME_CHARS == Lower \cup Upper \cup Digits \cup {"_", "-"}
ALLOWED_FILENAME_CHARS_WITH_DOT == ALLOWED_FILENAME_CHARS \cup {"."}
Whitespace == {" ", "\t"}

\* re.fullmatch(r"[A-Za-z0-9_-]{8,128}", job_id or "")
is_safe_job_id(job_id) ==
    /\ Len(job_id) >= 8
    /\ Len(job_id) <= 128
    /\ \A i \in 1..Len(job_id) : job_id[i] \in ALLOWED_FILENAME_CHARS

is_allowed_type(type_name) == type_name \in ALLOWED_TYPES

\* os.path.basename(filename): what follows the last "/"
basename(cs) ==
    LET seps == {i \in 1..Len(cs) : cs[i] = "/"}
    IN IF seps = {} THEN cs
       ELSE SubSeq(cs, (CHOOSE i \in seps : \A k \in seps : k <= i) + 1, Len(cs))

\* the loop of sanitize_filename: allowed characters are kept, white space
\* becomes "_", anything else is dropped
RECURSIVE cleaned(_)
cleaned(cs) ==
    IF cs = << >> THEN << >>
    ELSE IF Len(cs) = 1
    THEN IF cs[1] \in ALLOWED_FILENAME_CHARS_WITH_DOT THEN cs
         ELSE IF cs[1] \in Whitespace THEN << "_" >>
         ELSE << >>
    ELSE cleaned(SubSeq(cs, 1, Len(cs) \div 2)) \o cleaned(SubSeq(cs, Len(cs) \div 2 + 1, Len(cs)))

\* str.strip("._")
strip(cs) ==
    LET kept == {i \in 1..Len(cs) : cs[i] \notin {".", "_"}}
    IN IF kept = {} THEN << >>
       ELSE SubSeq(cs, CHOOSE i \in kept : \A k \in kept : i <= k,
                       CHOOSE i \in kept : \A k \in kept : k <= i)

\* a faulty variant: the cleaned name is not stripped of "." and "_"
sanitize_filename_unstripped(filename, default) ==
    IF filename = << >> THEN default
    ELSE LET cleaned_name == cleaned(basename(filename))
         IN IF cleaned_name = << >> THEN default
            ELSE SubSeq(cleaned_name, 1, IF Len(cleaned_name) < 128 THEN Len(cleaned_name) ELSE 128)

sanitize_filename(filename, default) ==
    IF filename = << >> THEN default
    ELSE LET cleaned_name == strip(cleaned(basename(filename)))
         IN IF cleaned_name = << >> THEN default
            ELSE SubSeq(cleaned_name, 1, IF Len(cleaned_name) < 128 THEN Len(cleaned_name) ELSE 128)

\* ------------------------------------------------------------ file system
\* fs maps each existing absolute path to its entry.
DirEntry == [t |-> "dir"]
FileEntry(by, st, kind, len, ino) ==
    [t |-> "file", by |-> by, st |-> st, kind |-> kind, len |-> len, ino |-> ino]
MetaEntry(m) == [t |-> "meta", m |-> m]

Put(f, p, e) == [q \in DOMAIN f \cup {p} |-> IF q = p THEN e ELSE f[q]]
Del(f, p) == [q \in DOMAIN f \ {p} |-> f[q]]
Exists(f, p) == p \in DOMAIN f
IsFile(f, p) == p \in DOMAIN f /\ f[p].t = "file"
\* os.makedirs(d, exist_ok=True) for a directory below temp/
MakeDirs(f, d) ==
    LET ds == {SubSeq(d, 1, k) : k \in (Len(ROOT) + 2)..Len(d)}
    IN [q \in DOMAIN f \cup ds |-> IF q \in DOMAIN f THEN f[q] ELSE DirEntry]
\* os.remove(p) guarded by os.path.exists(p)
RemoveIfExists(f, p) == IF p \in DOMAIN f THEN Del(f, p) ELSE f
\* the entries of directory d (d excluded)
Below(f, d) == {q \in DOMAIN f : IsPrefix(d, q) /\ q # d}


\* --------------------------------------------------------------- records
\* dict.update(): the keys of upd replace or extend those of old
MergeAdd(old, upd) ==
    [k \in DOMAIN old \cup DOMAIN upd |-> IF k \in DOMAIN upd THEN upd[k] ELSE old[k]]
\* the same, for a record whose fields are fixed
Merge(old, upd) == [k \in DOMAIN old |-> IF k \in DOMAIN upd THEN upd[k] ELSE old[k]]
\* dict.get(k) is not None
Has(m, k) == k \in DOMAIN m

\* req is the last request whose paths were resolved (specification PathSpec);
\* config is the module ow_config, clock the time the server reads
VARIABLES JOB_STATE, fs, proc, mv, ws, req, config, clock
vars == << JOB_STATE, fs, proc, mv, ws, req, config, clock >>

\* ----------------------------------------------------------- transfer tokens
\* A token is the claims it carries and the key that signed it (HS256).
Secret == "k1"
OtherSecret == "k2"
\* TRANSFER_JWT_SECRET missing or empty ("if not secret")
NoSecret == ""
\* None where a dict or a token is expected
NoneD == [None |-> TRUE]
jwt_encode(claims, key) == [claims |-> claims, sig |-> key]
\* a string that is no JWT
Garbage == [claims |-> NoneD, sig |-> "none"]
\* jwt.decode(token, secret, algorithms, audience): the signature, then exp,
\* then aud; None stands for each PyJWTError
jwt_decode(token, key, audience) ==
    IF token.sig # key THEN NoneD
    ELSE IF Has(token.claims, "exp") /\ token.claims.exp <= clock THEN NoneD
    ELSE IF ~Has(token.claims, "aud") \/ token.claims.aud # audience THEN NoneD
    ELSE token.claims

\* a faulty variant: the audience of the token is not compared
decode_transfer_jwt_any_audience(token, audience) ==
    IF config.TRANSFER_JWT_SECRET = NoSecret THEN NoneD
    ELSE IF token.sig # config.TRANSFER_JWT_SECRET THEN NoneD
    ELSE IF Has(token.claims, "exp") /\ token.claims.exp <= clock THEN NoneD
    ELSE token.claims

\* a faulty variant: without a secret, the token is checked against the empty key
decode_transfer_jwt_open(token, audience) ==
    jwt_decode(token, config.TRANSFER_JWT_SECRET, audience)

decode_transfer_jwt(token, audience) ==
    IF config.TRANSFER_JWT_SECRET = NoSecret THEN NoneD
    ELSE jwt_decode(token, config.TRANSFER_JWT_SECRET, audience)

encode_transfer_jwt(payload, audience, ttl_seconds) ==
    IF config.TRANSFER_JWT_SECRET = NoSecret THEN NoneD
    ELSE jwt_encode(MergeAdd(payload, [aud |-> audience, iss |-> "storage", iat |-> clock,
                                       exp |-> clock + ttl_seconds]),
                    config.TRANSFER_JWT_SECRET)
\* the configuration under which the transfer endpoints work
Configured == [TRANSFER_JWT_SECRET |-> Secret]

\* ----------------------------------------------------------- job registry
\* the entry transfer_ws and _set_state create for an unknown job
DefaultState ==
    [status |-> "pending", stage |-> "pending", bytes |-> 0, total |-> NoneT,
     error |-> "None", clients |-> {}]
\* the entry transfer_start and transfer_upload create: it has no "stage" key
NewState(status, total) ==
    [status |-> status, stage |-> "None", bytes |-> 0, total |-> total,
     error |-> "None", clients |-> {}]

set_state(S, j, updates) ==
    Put(S, j, Merge(IF j \in DOMAIN S THEN S[j] ELSE DefaultState, updates))

\* the order of the stages (spec 4.6); "None" is before the first stage event
Rank(stage) ==
    CASE stage = "None" -> 0
      [] stage = "pending" -> 1
      [] stage \in {"downloading", "uploading"} -> 2
      [] stage \in {"downloaded", "uploaded"} -> 3
      [] stage = "processing" -> 4
      [] stage = "repacking" -> 5
      [] stage = "packed" -> 6
      [] stage = "moved" -> 7
      [] OTHER -> 8

\* _broadcast of a stage event that follows the stage "before": every socket of
\* the job's clients set receives it. A socket has been sent every stage since
\* its snapshot (which carries the stage of that moment), so the stage it saw
\* last is the one of the registry; it remembers whether a stage ever came
\* after a later one.
broadcast_stage(S, W, j, before, stage) ==
    IF j \notin DOMAIN S THEN W
    ELSE [s \in Subs |->
            IF s \in S[j].clients
            THEN [W[s] EXCEPT !.regress = @ \/ Rank(stage) < Rank(before)]
            ELSE W[s]]

\* _set_stage: the registry after it, and the sockets after it
set_stage_state(S, j, stage) == set_state(S, j, [stage |-> stage])
set_stage_socks(S, W, j, stage) ==
    broadcast_stage(set_stage_state(S, j, stage), W, j,
                    IF j \in DOMAIN S THEN S[j].stage ELSE DefaultState.stage, stage)

\* _close_clients: the clients set is emptied and each socket closed
\* a faulty variant: the entry of the job is dropped with its subscribers
close_clients_state_dropped(S, j) == [k \in DOMAIN S \ {j} |-> S[k]]
close_clients_state(S, j) ==
    IF j \notin DOMAIN S THEN S ELSE Put(S, j, Merge(S[j], [clients |-> {}]))
\* a faulty variant: the sockets are dropped from the set and left open
close_clients_socks_open(S, W, j) == W
close_clients_socks(S, W, j) ==
    IF j \notin DOMAIN S THEN W
    ELSE [s \in Subs |-> IF s \in S[j].clients THEN [W[s] EXCEPT !.st = "closed"] ELSE W[s]]

\* ---------------------------------------------------------------- meta.json
HasMeta(f, j) == job_meta_path(j) \in DOMAIN f /\ f[job_meta_path(j)].t = "meta"
read_meta_sync(f, j) == f[job_meta_path(j)].m
write_meta_sync(f, j, data) == Put(MakeDirs(f, job_dir(j)), job_meta_path(j), MetaEntry(data))
\* read, update, write inside try/except: a missing meta.json leaves the disk as it is
update_meta(f, j, upd) ==
    IF HasMeta(f, j) THEN write_meta_sync(f, j, MergeAdd(read_meta_sync(f, j), upd)) ELSE f

\* -------------------------------------------------------------- file access
\* open(path, "wb") after os.makedirs(dirname): an existing file is truncated in place
OpenWrite(f, p, r) ==
    IF IsFile(f, p) THEN Put(f, p, FileEntry(r, "partial", "none", 0, f[p].ino))
    ELSE Put(MakeDirs(f, SubSeq(p, 1, Len(p) - 1)), p, FileEntry(r, "partial", "none", 0, r))
OpenedIno(f, p, r) == IF IsFile(f, p) THEN f[p].ino ELSE r
\* out_file.write(chunk) through the handle on inode ino
WriteChunk(f, r, ino) ==
    [q \in DOMAIN f |->
        IF f[q].t = "file" /\ f[q].ino = ino /\ ino # 0
        THEN IF f[q].by = r /\ f[q].st = "partial"
             THEN [f[q] EXCEPT !.len = @ + ChunkBytes]
             ELSE [f[q] EXCEPT !.st = "garbled"]
        ELSE f[q]]
\* leaving the with-block: the file is complete if this writer alone filled it
CloseFile(f, r, ino, kind) ==
    [q \in DOMAIN f |->
        IF f[q].t = "file" /\ f[q].ino = ino /\ ino # 0 /\ f[q].by = r /\ f[q].st = "partial"
        THEN [f[q] EXCEPT !.st = "whole", !.kind = kind]
        ELSE f[q]]

\* what the payload of a finished stream can be
ArchiveKinds == {"zipc", "arc", "enc", "bin", "evil"}
ImageKinds == {"image", "notimg", "bomb"}
\* tools.probe_archive(path): a missing, unfinished or overwritten file does not list
probe_archive(f, p) ==
    IF IsFile(f, p) /\ f[p].st = "whole" /\ f[p].kind \in ArchiveKinds THEN f[p].kind ELSE "bin"

\* ------------------------------------------------------------- processes
\* A process is one request and the work it starts: a /transfer/start request
\* with its download task, a /transfer/upload request, or a /transfer/repack
\* request. pc is its position between two awaits.
IdleProc ==
    [pc |-> "idle", mode |-> "none", total |-> NoneT, n |-> 0, src |-> << >>, ino |-> 0, atype |-> "none",
     spawned |-> FALSE, resp |-> 0, rstatus |-> "None", packed |-> FALSE,
     cb |-> "none", ncb |-> 0, reason |-> "None", fail |-> "None",
     sawErr |-> FALSE, bcErr |-> FALSE, bcDone |-> FALSE,
     token |-> NoneD, callback_context |-> NoneD, sent |-> NoneD, format |-> "None"]
\* the locals of a handler, dropped when it returns
Locals ==
    [total |-> NoneT, n |-> 0, src |-> << >>, ino |-> 0, atype |-> "none"]
IdleMove ==
    [pc |-> "idle", meta |-> [job_id |-> J], packed_abs |-> << >>, real_path |-> << >>,
     unsafe |-> FALSE, resp |-> 0, final_path |-> << >>, final_bytes |-> 0]
\* the locals of transfer_move, dropped when it returns
MoveLocals == [meta |-> [job_id |-> J], packed_abs |-> << >>, real_path |-> << >>]
IdleSock == [st |-> "idle", regress |-> FALSE, token |-> NoneD, job_id |-> << >>, code |-> 0]
IdleReq ==
    [op |-> "none", job_id |-> << >>, type |-> "", path |-> << >>, filename |-> << >>,
     resp |-> 0, reads |-> {}, writes |-> {}]

Init ==
    /\ JOB_STATE = [j \in {} |-> DefaultState]
    /\ fs = [q \in {} |-> DirEntry]
    /\ proc = [p \in Procs |-> IdleProc]
    /\ mv = [m \in MoveIds |-> IdleMove]
    /\ ws = [s \in Subs |-> IdleSock]
    /\ req = IdleReq
    /\ config = Configured
    /\ clock = 0

\* the requests received so far; one more is accepted below MaxRequests
Issued ==
    Cardinality({p \in Procs : proc[p].pc # "idle"})
      + Cardinality({m \in MoveIds : mv[m].pc # "idle"})
      + Cardinality({s \in Subs : ws[s].st # "idle"})
\* the requests in flight, and the sockets open
Active ==
    Cardinality({p \in Procs : proc[p].pc \notin {"idle", "done"}})
      + Cardinality({m \in MoveIds : mv[m].pc \notin {"idle", "done"}})
      + Cardinality({s \in Subs : ws[s].st = "open"})
\* the server takes one more request
Accepts == Issued < MaxRequests /\ Active < MaxActive
\* requests are numbered in the order of their arrival
Arrives(p) ==
    /\ proc[p].pc = "idle"
    /\ Accepts
    /\ \A o \in Procs : ((o \in RunIds) = (p \in RunIds) /\ o < p) => proc[o].pc # "idle"

Upd(p, upd) == [proc EXCEPT ![p] = Merge(@, upd)]
\* an update that changes nothing
NoUpd(p) == [mode |-> proc[p].mode]

\* a faulty variant: the callback is skipped, as it is when no token can be encoded
notify_manager_skipped(p, status, reason) ==
    [cb |-> proc[p].cb, ncb |-> proc[p].ncb, reason |-> proc[p].reason, sent |-> proc[p].sent,
     format |-> proc[p].format]

\* TRANSFER_CALLBACK_TTL_SECONDS
CallbackTtl == MaxTtl
\* a faulty variant: every upload is reported as a zip
callback_packed_format_zip(p, status) ==
    IF status = "success" /\ proc[p].mode = "upload" THEN "zip" ELSE "None"
\* the key packed_format of a callback: only the success callback of an upload
\* has it (main.py line 665)
callback_packed_format(p, status) ==
    IF status = "success" /\ proc[p].mode = "upload"
    THEN IF Has(proc[p].token.claims, "transfer_kind") /\ proc[p].token.claims.transfer_kind = "img"
         THEN "webp" ELSE "zip"
    ELSE "None"
\* the payload of a callback: "**callback_payload" and the outcome
callback_of(p, status, reason) ==
    MergeAdd(MergeAdd(IF proc[p].callback_context = NoneD THEN [job_id |-> J]
                      ELSE [job_id |-> J, callback_context |-> proc[p].callback_context],
                      [status |-> status, reason |-> reason]),
             IF callback_packed_format(p, status) = "None" THEN [job_id |-> J]
             ELSE [packed_format |-> callback_packed_format(p, status)])
\* _notify_manager(payload): the payload travels as the claims of a token for
\* the audience "manager"; without a token the callback is skipped; one POST,
\* its outcome only logged
notify_manager(p, status, reason) ==
    LET token == encode_transfer_jwt(callback_of(p, status, reason), "manager", CallbackTtl) IN
    IF token = NoneD THEN notify_manager_skipped(p, status, reason)
    ELSE [cb |-> token.claims.status, ncb |-> proc[p].ncb + 1, reason |-> token.claims.reason,
          sent |-> IF Has(token.claims, "callback_context") THEN token.claims.callback_context
                   ELSE NoneD,
          format |-> IF Has(token.claims, "packed_format") THEN token.claims.packed_format
                     ELSE "None"]
\* what a failure handler left behind: the registry status after it, and
\* whether it broadcast an error event
Failure(S, reason, broadcasted) ==
    [fail |-> reason, sawErr |-> (J \in DOMAIN S /\ S[J].status = "error"), bcErr |-> broadcasted]

\* a step that goes on to position pc
Goto(p, pc, S, f, W, upd) ==
    /\ JOB_STATE' = S
    /\ ws' = W
    /\ fs' = f
    /\ proc' = Upd(p, [pc |-> pc] @@ (IF pc = "done" THEN Locals @@ upd ELSE upd))
    /\ UNCHANGED << mv, req, config, clock >>

\* the end of a run: "finally: await _close_clients(job_id)"
Finish(p, S, f, W, upd) ==
    Goto(p, "done", close_clients_state(S, J), f, close_clients_socks(S, W, J), upd)

download_rel(j) == << "temp", j, SrcName >>
\* The claims pack_format, max_bytes and transfer_kind of a token are drawn where
\* the handler first branches on them: until then they are held in locals that
\* nothing else reads.
PackFormats == {"zip", "rar"}
MaxBytesInputs == {0, CapBytes}
TotalInputs == {NoneT, Some(MaxChunks * ChunkBytes)}
\* the values of max_bytes under which the n bytes received so far, and the
\* announced length where the handler compared it, have passed
CapsLeft(p, compared) ==
    {max \in MaxBytesInputs :
        max > 0 => /\ proc[p].n <= max
                   /\ (compared /\ proc[p].total # NoneT) => proc[p].total[1] <= max}

\* ------------------------------------------------- the request checks
\* dict.get(k, default)
Get(m, k, default) == IF Has(m, k) THEN m[k] ELSE default
\* a callback_context, and the empty dict
CtxA == [mod_id |-> 7]
EmptyD == [k \in {} |-> TRUE]
\* the claims a manager puts into every transfer token
Claims(job_id, audience, exp) == [job_id |-> job_id, aud |-> audience, exp |-> exp]
Fresh == MaxClock + 1
\* the tokens of specification Spec: signed, for this service, not expired, for
\* job J. A download_url is given by its scheme.
StartToken ==
    jwt_encode(MergeAdd(Claims(JChars, "storage", Fresh),
                        [download_url |-> "https", callback_context |-> CtxA]), Secret)
ArchiveToken ==
    jwt_encode(MergeAdd(Claims(JChars, "storage", Fresh),
                        [transfer_kind |-> "archive", callback_context |-> CtxA]), Secret)
ImgToken ==
    jwt_encode(MergeAdd(Claims(JChars, "storage", Fresh),
                        [transfer_kind |-> "img", storage_type |-> "avatar", file_kind |-> "img",
                         callback_context |-> CtxA]), Secret)
UploadTokens == {ArchiveToken, ImgToken}
WsToken == jwt_encode(Claims(JChars, "storage", Fresh), Secret)

ALLOWED_UPLOAD_TYPES == {"resource", "avatar"}
ALLOWED_FILE_KINDS == {"img", "bin"}
is_allowed_upload_type(type_name) == type_name \in ALLOWED_UPLOAD_TYPES
\* the values of the model are lower-case and without white space
normalize_file_kind(file_kind, default) ==
    LET value == IF file_kind = "" THEN default ELSE file_kind
    IN IF value \in ALLOWED_FILE_KINDS THEN value ELSE ""

\* a faulty variant: the download URL is not looked at
transfer_start_checks_no_url(token) ==
    IF token = NoneD THEN 401
    ELSE IF decode_transfer_jwt(token, "storage") = NoneD THEN 403
    ELSE IF ~is_safe_job_id(Get(decode_transfer_jwt(token, "storage"), "job_id", << >>)) THEN 400
    ELSE 0

\* main.py lines 153-172: the status that ends the request, 0 if it goes on
transfer_start_checks(token) ==
    IF token = NoneD THEN 401
    ELSE LET payload == decode_transfer_jwt(token, "storage") IN
         IF payload = NoneD THEN 403
         ELSE IF ~is_safe_job_id(Get(payload, "job_id", << >>)) THEN 400
         ELSE IF Get(payload, "download_url", "") = "" THEN 400
         ELSE IF payload.download_url \notin {"http", "https"} THEN 400
         ELSE 0

transfer_kind_of(payload) ==
    IF Get(payload, "transfer_kind", "") = "" THEN "archive" ELSE payload.transfer_kind

\* main.py lines 310-376
transfer_upload_checks(token) ==
    IF token = NoneD THEN 401
    ELSE LET payload == decode_transfer_jwt(token, "storage") IN
         IF payload = NoneD THEN 403
         ELSE IF ~is_safe_job_id(Get(payload, "job_id", << >>)) THEN 400
         ELSE IF transfer_kind_of(payload) \notin {"archive", "img"} THEN 400
         ELSE IF transfer_kind_of(payload) = "archive"
         THEN IF Get(payload, "pack_format", "zip") # "zip" THEN 400 ELSE 0
         ELSE IF ~is_allowed_upload_type(Get(payload, "storage_type", "")) THEN 400
         ELSE IF normalize_file_kind(Get(payload, "file_kind", ""), "") # "img" THEN 400
         ELSE 0

\* main.py lines 334-342: callback_payload["callback_context"]; every
\* callback_context of the model is a dict
upload_callback_context(payload) == Get(payload, "callback_context", EmptyD)

\* a faulty variant: the job_id of the token is not compared with the path
transfer_ws_checks_any_job(token, job_id) ==
    IF token = NoneD THEN 1008
    ELSE IF decode_transfer_jwt(token, "storage") = NoneD THEN 1008
    ELSE 0

\* main.py lines 702-710: the close code that ends the handshake, 0 if the
\* socket is accepted
transfer_ws_checks(token, job_id) ==
    IF token = NoneD THEN 1008
    ELSE LET payload == decode_transfer_jwt(token, "storage") IN
         IF payload = NoneD \/ Get(payload, "job_id", << >>) # job_id THEN 1008
         ELSE 0

\* -------------------------------------------------- /transfer/start
\* a faulty variant: the registry is not looked up before the entry is created
transfer_start_unchecked(r, token) ==
    /\ r \in RunIds
    /\ Arrives(r)
    /\ safe_path(MAIN_DIR, download_rel(J)).ok
    /\ Goto(r, "st_meta", Put(JOB_STATE, J, NewState("pending", NoneT)), fs, ws,
            [mode |-> "download", token |-> token,
             src |-> safe_path(MAIN_DIR, download_rel(J)).target])

\* lines 153-210: the request up to the end of the JOB_LOCK section. The
\* callback_payload of lines 225-231 has no key callback_context. A request
\* that passes the checks is one for job J.
transfer_start(r, token) ==
    /\ r \in RunIds
    /\ Arrives(r)
    /\ IF transfer_start_checks(token) # 0
       THEN Goto(r, "done", JOB_STATE, fs, ws,
                 [mode |-> "start", token |-> token, resp |-> transfer_start_checks(token)])
       ELSE /\ decode_transfer_jwt(token, "storage").job_id = JChars
            /\ IF J \in DOMAIN JOB_STATE
               THEN Goto(r, "done", JOB_STATE, fs, ws,
                         [mode |-> "start", token |-> token, resp |-> 200,
                          rstatus |-> JOB_STATE[J].status])
               ELSE /\ safe_path(MAIN_DIR, download_rel(J)).ok
                    /\ Goto(r, "st_meta", Put(JOB_STATE, J, NewState("pending", NoneT)), fs, ws,
                            [mode |-> "download", token |-> token, callback_context |-> NoneD,
                             src |-> safe_path(MAIN_DIR, download_rel(J)).target])

\* lines 212-240 and 1200-1210: meta.json is written, the task created and the
\* request answered; the task sets status and stage "downloading"
transfer_start_spawn(r) ==
    /\ proc[r].pc = "st_meta"
    /\ LET f1 == write_meta_sync(fs, J, [job_id |-> J, download_path |-> download_rel(J),
                                         status |-> "pending"])
           S1 == set_state(JOB_STATE, J, [status |-> "downloading", error |-> "None"])
       IN Goto(r, "dl_get", set_stage_state(S1, J, "downloading"),
               update_meta(f1, J, [status |-> "downloading"]),
               set_stage_socks(S1, ws, J, "downloading"),
               [spawned |-> TRUE, resp |-> 200, rstatus |-> "started"])

\* --------------------------------------------------- _run_repack_job
packed_zip(j) == safe_path(MAIN_DIR, << "temp", j, "packed.zip" >>).target
packed_webp(j) == safe_path(MAIN_DIR, << "temp", j, "packed.webp" >>).target
repack_abs(j) == safe_path(MAIN_DIR, << "temp", j, "repack" >>).target

\* what the caller does with the result (repack_ok, repack_reason):
\* _run_download_job lines 1319-1353, transfer_upload lines 566-577 and 648-671,
\* transfer_repack lines 826-835
\* a faulty variant: an upload whose repack failed is answered 200
after_repack_answers_200(p, mode, ok, reason, S, f, W, upd) ==
    IF mode = "download" THEN
        IF ok THEN Finish(p, S, f, W,
                          upd @@ notify_manager(p, "success", "None") @@ [packed |-> TRUE, bcDone |-> TRUE])
        ELSE Finish(p, S, IF reason = "encrypted_zip" THEN RemoveIfExists(f, proc[p].src) ELSE f, W,
                    upd @@ notify_manager(p, "error", reason))
    ELSE IF mode = "upload" THEN
        IF ok THEN Finish(p, S, f, W,
                          upd @@ notify_manager(p, "success", "None")
                              @@ [packed |-> TRUE, bcDone |-> TRUE, resp |-> 200])
        ELSE Finish(p, S, f, W, upd @@ notify_manager(p, "error", reason) @@ [resp |-> 200])
    ELSE Goto(p, "done", S, f, W,
              upd @@ [packed |-> ok,
                      resp |-> IF ok THEN 200 ELSE IF reason = "encrypted_zip" THEN 400 ELSE 500])
after_repack(p, mode, ok, reason, S, f, W, upd) ==
    IF mode = "download" THEN
        IF ok THEN Finish(p, S, f, W,
                          upd @@ notify_manager(p, "success", "None") @@ [packed |-> TRUE, bcDone |-> TRUE])
        ELSE Finish(p, S, IF reason = "encrypted_zip" THEN RemoveIfExists(f, proc[p].src) ELSE f, W,
                    upd @@ notify_manager(p, "error", reason))
    ELSE IF mode = "upload" THEN
        IF ok THEN Finish(p, S, f, W,
                          upd @@ notify_manager(p, "success", "None")
                              @@ [packed |-> TRUE, bcDone |-> TRUE, resp |-> 200])
        ELSE Finish(p, S, f, W,
                    upd @@ notify_manager(p, "error", reason)
                        @@ [resp |-> IF reason = "encrypted_zip" THEN 400 ELSE 500])
    ELSE Goto(p, "done", S, f, W,
              upd @@ [packed |-> ok,
                      resp |-> IF ok THEN 200 ELSE IF reason = "encrypted_zip" THEN 400 ELSE 500])

\* lines 1018-1026: the format check and the "repacking" stage
run_repack_job_begin(p, mode, fmt, S, f, W, upd) ==
    IF fmt # "zip"
    THEN LET S1 == set_state(S, J, [status |-> "error", error |-> "unsupported_format"])
         IN after_repack(p, mode, FALSE, "unsupported_format", S1, f, W,
                         upd @@ Failure(S1, "unsupported_format", TRUE))
    ELSE Goto(p, "rp_probe", set_stage_state(S, J, "repacking"), f,
              set_stage_socks(S, W, J, "repacking"), upd)

\* a faulty variant: the result is always recorded as packed.zip
packed_meta_zip(rel, bytes) ==
    [packed_path |-> << "temp", J, "packed.zip" >>, packed_bytes |-> bytes, pack_format |-> "zip",
     status |-> "packed"]
packed_meta(rel, bytes) ==
    [packed_path |-> rel, packed_bytes |-> bytes, pack_format |-> "zip", status |-> "packed"]

\* lines 1073-1090 and 1140-1147: the result is recorded and "packed" published
run_repack_job_packed(p, f, path) ==
    after_repack(p, proc[p].mode, TRUE, "None", set_stage_state(JOB_STATE, J, "packed"),
                 update_meta(f, J, packed_meta(RelPath(path), f[path].len)),
                 set_stage_socks(JOB_STATE, ws, J, "packed"), NoUpd(p))

\* the except branch of lines 1148-1152
run_repack_job_except(p, f) ==
    LET S1 == set_state(JOB_STATE, J, [status |-> "error", error |-> "exc"])
    IN after_repack(p, proc[p].mode, FALSE, "repack_failed", S1, f, ws,
                    Failure(S1, "repack_failed", TRUE))

\* lines 1027-1071: the probe, the encrypted source, the canonical zip (which is
\* taken as the packed file where it lies)
run_repack_job_probe(p) ==
    /\ proc[p].pc = "rp_probe"
    /\ LET k == probe_archive(fs, proc[p].src) IN
       IF k = "enc"
       THEN LET S1 == set_state(JOB_STATE, J, [status |-> "error", error |-> "encrypted_zip"])
            IN after_repack(p, proc[p].mode, FALSE, "encrypted_zip", S1,
                            update_meta(fs, J, [status |-> "error", error_reason |-> "encrypted_zip"]),
                            ws, Failure(S1, "encrypted_zip", TRUE))
       ELSE IF k = "zipc"
       THEN run_repack_job_packed(p, fs, proc[p].src)
       ELSE Goto(p, "rp_extract", JOB_STATE, fs, ws, [atype |-> IF k = "bin" THEN "none" ELSE k])

\* lines 1073-1115: an existing packed.zip is taken as the result; otherwise the
\* repack directory is emptied and created, and the archive extracted, or the
\* plain file moved, into it
run_repack_job_extract(p) ==
    /\ proc[p].pc = "rp_extract"
    /\ LET src == proc[p].src
           dir == repack_abs(J)
           f1 == MakeDirs([q \in DOMAIN fs \ Below(fs, dir) |-> fs[q]], dir)
       IN
       IF Exists(fs, packed_zip(J))
       THEN run_repack_job_packed(p, fs, packed_zip(J))
       ELSE IF proc[p].atype = "arc" /\ IsFile(fs, src)
       THEN Goto(p, "rp_zip", JOB_STATE,
                 Put(f1, dir \o << "tree" >>, FileEntry(p, fs[src].st, "tree", fs[src].len, 0)),
                 ws, NoUpd(p))
       ELSE IF proc[p].atype = "none" /\ IsFile(fs, src)
       THEN Goto(p, "rp_zip", JOB_STATE,
                 update_meta(Put(Del(f1, src), dir \o << SrcName >>, fs[src]), J,
                             [download_path |-> RelPath(dir \o << SrcName >>)]),
                 ws, NoUpd(p))
       ELSE run_repack_job_except(p, f1)

\* tools.zip_dir_with_level (the directory of the zip is created, an old zip
\* removed, 7z run in the repack directory) and lines 1117-1147
run_repack_job_zip(p) ==
    /\ proc[p].pc = "rp_zip"
    /\ LET dir == repack_abs(J)
           members == {q \in Below(fs, dir) : fs[q].t = "file"}
           st == IF \A q \in members : fs[q].st = "whole" THEN "whole" ELSE "partial"
           len == IF members = {} THEN 0 ELSE fs[CHOOSE q \in members : TRUE].len
           f0 == RemoveIfExists(MakeDirs(fs, job_dir(J)), packed_zip(J))
       IN
       IF Exists(fs, dir)
       THEN run_repack_job_packed(p, Put(f0, packed_zip(J), FileEntry(p, st, "zip", len, 0)),
                                  packed_zip(J))
       ELSE run_repack_job_except(p, f0)

\* ------------------------------------------------- _run_download_job
\* the except branch of the task, lines 1354-1377
run_download_job_except(r, S, f) ==
    LET f1 == update_meta(RemoveIfExists(f, proc[r].src), J, [status |-> "error", error |-> "exc"])
        S1 == set_state(S, J, [status |-> "error", error |-> "exc"])
    IN Finish(r, S1, f1, ws, notify_manager(r, "error", "exception") @@ Failure(S1, "exception", TRUE))

\* a size_limit failure of the task, lines 1235-1254 and 1262-1281
run_download_job_size_limit(r, S, f) ==
    LET S1 == set_state(S, J, [status |-> "error", error |-> "size_limit"])
    IN Finish(r, S1, RemoveIfExists(f, proc[r].src), ws,
              notify_manager(r, "error", "size_limit") @@ Failure(S1, "size_limit", TRUE))

\* lines 1211-1257, session.get(download_url): the answer of the upstream server
run_download_job_response(r) ==
    /\ proc[r].pc = "dl_get"
    /\ \/ LET S1 == set_state(JOB_STATE, J, [status |-> "error", error |-> "status:404"])
          IN Finish(r, S1, fs, ws,
                    notify_manager(r, "error", "status:404") @@ Failure(S1, "status:404", TRUE))
       \/ run_download_job_except(r, JOB_STATE, fs)
       \/ \E total \in TotalInputs, max \in MaxBytesInputs :
            LET S1 == set_state(JOB_STATE, J, [total |-> total]) IN
            IF max > 0 /\ total # NoneT /\ total[1] > max
            THEN run_download_job_size_limit(r, S1, fs)
            ELSE Goto(r, "dl_stream", S1, OpenWrite(fs, proc[r].src, r), ws,
                      [total |-> total, ino |-> OpenedIno(fs, proc[r].src, r)])


\* "if now - last_push >= PROGRESS_PUSH_INTERVAL": the first chunk is always
\* pushed (last_push starts at 0.0), a later one if enough time has passed
PushChoices(n) == IF n = ChunkBytes THEN {TRUE} ELSE BOOLEAN

\* the body has more chunks
StreamGoesOn(p) ==
    /\ proc[p].n < MaxChunks * ChunkBytes
    /\ proc[p].total # NoneT => proc[p].n < proc[p].total[1]
\* the body can end here
StreamComplete(p) ==
    /\ proc[p].n >= ChunkBytes
    /\ proc[p].total # NoneT => proc[p].n = proc[p].total[1]

\* lines 1258-1295: one chunk of resp.content.iter_chunked
run_download_job_chunk(r) ==
    /\ proc[r].pc = "dl_stream"
    /\ StreamGoesOn(r)
    /\ \E max \in CapsLeft(r, TRUE) :
       LET n == proc[r].n + ChunkBytes IN
       IF max > 0 /\ n > max
       THEN run_download_job_size_limit(r, JOB_STATE, fs)
       ELSE \E push \in PushChoices(n) :
              Goto(r, "dl_stream",
                   IF push THEN set_state(JOB_STATE, J, [bytes |-> n]) ELSE JOB_STATE,
                   WriteChunk(fs, r, proc[r].ino), ws, [n |-> n])

\* the connection breaks while the body is read
run_download_job_abort(r) ==
    /\ proc[r].pc = "dl_stream"
    /\ run_download_job_except(r, JOB_STATE, fs)

\* lines 1297-1318: the body ends: status "done", meta "downloaded", stage
\* "downloaded", and _run_repack_job is entered
run_download_job_downloaded(r) ==
    /\ proc[r].pc = "dl_stream"
    /\ StreamComplete(r)
    /\ \E kind \in ArchiveKinds, pack_format \in PackFormats :
        LET f1 == CloseFile(fs, r, proc[r].ino, kind)
            S1 == set_state(JOB_STATE, J,
                            [status |-> "done", bytes |-> proc[r].n, total |-> proc[r].total])
        IN run_repack_job_begin(r, "download", pack_format, set_stage_state(S1, J, "downloaded"),
                                update_meta(f1, J, [status |-> "downloaded"]),
                                set_stage_socks(S1, ws, J, "downloaded"), NoUpd(r))

\* -------------------------------------------------- /transfer/upload
\* lines 310-452: the JOB_LOCK section, a fresh meta.json, the "uploading"
\* stage, the file opened
transfer_upload(r, token) ==
    /\ r \in RunIds
    /\ Arrives(r)
    /\ IF transfer_upload_checks(token) # 0
       THEN Goto(r, "done", JOB_STATE, fs, ws,
                 [mode |-> "upload", token |-> token, resp |-> transfer_upload_checks(token)])
       ELSE
            /\ decode_transfer_jwt(token, "storage").job_id = JChars
            /\ safe_path(MAIN_DIR, download_rel(J)).ok
            /\ \E total \in TotalInputs :
                LET src == safe_path(MAIN_DIR, download_rel(J)).target
                    S1 == IF J \in DOMAIN JOB_STATE
                          THEN Put(JOB_STATE, J, Merge(JOB_STATE[J], [status |-> "uploading", bytes |-> 0,
                                                                      total |-> total, error |-> "None"]))
                          ELSE Put(JOB_STATE, J, NewState("uploading", total))
                    f1 == write_meta_sync(fs, J, [job_id |-> J, download_path |-> download_rel(J),
                                                  status |-> "uploading"])
                IN Goto(r, "up_stream", set_stage_state(S1, J, "uploading"), OpenWrite(f1, src, r),
                        set_stage_socks(S1, ws, J, "uploading"),
                        [mode |-> "upload", token |-> token,
                         callback_context |-> upload_callback_context(decode_transfer_jwt(token, "storage")),
                         total |-> total, src |-> src, ino |-> OpenedIno(f1, src, r)])

\* lines 453-488: one chunk of request.stream()
transfer_upload_chunk(r) ==
    /\ proc[r].pc = "up_stream"
    /\ StreamGoesOn(r)
    /\ \E max \in CapsLeft(r, FALSE) :
       LET n == proc[r].n + ChunkBytes IN
       IF max > 0 /\ n > max
       THEN LET S1 == set_state(JOB_STATE, J, [status |-> "error", error |-> "size_limit"])
            IN Finish(r, S1, RemoveIfExists(fs, proc[r].src), ws,
                      notify_manager(r, "error", "size_limit") @@ Failure(S1, "size_limit", TRUE)
                        @@ [resp |-> 413])
       ELSE \E push \in PushChoices(n) :
              Goto(r, "up_stream",
                   IF push THEN set_state(JOB_STATE, J, [bytes |-> n]) ELSE JOB_STATE,
                   WriteChunk(fs, r, proc[r].ino), ws, [n |-> n])

\* lines 672-696: the client disconnects while the body is read
transfer_upload_abort(r) ==
    /\ proc[r].pc = "up_stream"
    /\ LET f1 == update_meta(RemoveIfExists(fs, proc[r].src), J,
                             [status |-> "error", error |-> "exc"])
           S1 == set_state(JOB_STATE, J, [status |-> "error", error |-> "exc"])
       IN Finish(r, S1, f1, ws,
                 notify_manager(r, "error", "exception") @@ Failure(S1, "exception", TRUE)
                   @@ [resp |-> 500])

\* lines 507-565 and 579: the body ends; the archive is probed and handed to
\* _run_repack_job, the image goes to "processing"
transfer_upload_uploaded(r) ==
    /\ proc[r].pc = "up_stream"
    /\ StreamComplete(r)
    /\ LET transfer_kind == transfer_kind_of(proc[r].token.claims) IN
       \E kind \in (IF transfer_kind = "archive" THEN ArchiveKinds ELSE ImageKinds) :
        LET f1 == CloseFile(fs, r, proc[r].ino, kind)
            S1 == set_state(JOB_STATE, J,
                            [status |-> "done", bytes |-> proc[r].n, total |-> proc[r].total])
            f2 == update_meta(f1, J, [status |-> "uploaded"])
        IN
        IF transfer_kind = "img"
        THEN Goto(r, "up_img", set_stage_state(S1, J, "processing"), f2,
                  set_stage_socks(S1, ws, J, "processing"), NoUpd(r))
        ELSE IF probe_archive(f2, proc[r].src) = "enc"
        THEN LET S2 == set_state(S1, J, [status |-> "error", error |-> "encrypted_zip"])
             IN Finish(r, S2,
                       RemoveIfExists(update_meta(f2, J, [status |-> "error",
                                                          error_reason |-> "encrypted_zip"]),
                                      proc[r].src),
                       ws,
                       notify_manager(r, "error", "encrypted_zip")
                         @@ Failure(S2, "encrypted_zip", TRUE) @@ [resp |-> 400])
        ELSE run_repack_job_begin(r, "upload", "zip", set_stage_state(S1, J, "uploaded"), f2,
                                  set_stage_socks(S1, ws, J, "uploaded"), NoUpd(r))

\* tools.image_file_to_webp(src, dst): "ok", "not_image" (ValueError) or
\* "failed" (any other exception: the source cannot be opened, the decoder
\* refuses the picture)
image_file_to_webp(f, src) ==
    IF ~IsFile(f, src) THEN "failed"
    ELSE IF f[src].st = "whole" /\ f[src].kind = "image" THEN "ok"
    ELSE IF f[src].st = "whole" /\ f[src].kind = "bomb" THEN "failed"
    ELSE "not_image"

\* lines 580-671: the image is converted to packed.webp
transfer_upload_image(r) ==
    /\ proc[r].pc = "up_img"
    /\ LET src == proc[r].src
           res == image_file_to_webp(fs, src)
       IN
       IF res = "not_image"
       THEN LET S1 == set_state(JOB_STATE, J, [status |-> "error", error |-> "not_image"])
            IN Finish(r, S1,
                      RemoveIfExists(update_meta(fs, J, [status |-> "error",
                                                         error_reason |-> "not_image"]), src),
                      ws,
                      notify_manager(r, "error", "not_image") @@ Failure(S1, "not_image", TRUE)
                        @@ [resp |-> 400])
       ELSE IF res = "failed"
       THEN Finish(r, JOB_STATE, RemoveIfExists(RemoveIfExists(fs, src), packed_webp(J)), ws,
                   notify_manager(r, "error", "image_prepare_failed")
                     @@ Failure(JOB_STATE, "image_prepare_failed", FALSE) @@ [resp |-> 500])
       ELSE LET f1 == Put(fs, packed_webp(J), FileEntry(r, "whole", "webp", fs[src].len, 0))
                f2 == update_meta(Del(f1, src), J,
                                  [packed_path |-> RelPath(packed_webp(J)),
                                   packed_bytes |-> fs[src].len, status |-> "packed",
                                   packed_format |-> "webp"])
            IN Finish(r, set_stage_state(JOB_STATE, J, "packed"), f2,
                      set_stage_socks(JOB_STATE, ws, J, "packed"),
                      notify_manager(r, "success", "None")
                        @@ [packed |-> TRUE, bcDone |-> TRUE, resp |-> 200])

\* -------------------------------------------------- /transfer/repack
\* lines 777-825: the checks, then _run_repack_job is entered
transfer_repack(q) ==
    /\ q \in RepackIds
    /\ Arrives(q)
    /\ \E format \in PackFormats :
        IF ~HasMeta(fs, J)
        THEN Goto(q, "done", JOB_STATE, fs, ws, [mode |-> "repack", resp |-> 404])
        ELSE IF format # "zip"
        THEN Goto(q, "done", JOB_STATE, fs, ws, [mode |-> "repack", resp |-> 400])
        ELSE IF ~Has(read_meta_sync(fs, J), "download_path")
        THEN Goto(q, "done", JOB_STATE, fs, ws, [mode |-> "repack", resp |-> 404])
        ELSE /\ safe_path(MAIN_DIR, read_meta_sync(fs, J).download_path).ok
             /\ run_repack_job_begin(q, "repack", format, JOB_STATE, fs, ws,
                     [mode |-> "repack",
                      src |-> safe_path(MAIN_DIR, read_meta_sync(fs, J).download_path).target])

\* ---------------------------------------------------- /transfer/move
MoveTypes == {"archive", "temp"}
MovePaths ==
    { << "mods", "1.zip" >>, << "..", "evil" >>, << "/", "etc", "evil" >> }

\* lines 880-899: the checks of the request against the disk f; resp 0 means
\* that the move goes on
transfer_move_checks(f, job_id, type, path) ==
    LET j == Str(job_id)
        no == [meta |-> [job_id |-> j], packed_abs |-> << >>, real_path |-> << >>]
    IN
    IF ~is_safe_job_id(job_id) THEN [resp |-> 400] @@ no
    ELSE IF ~is_allowed_type(type) THEN [resp |-> 400] @@ no
    ELSE IF ~HasMeta(f, j) THEN [resp |-> 404] @@ no
    ELSE IF ~Has(read_meta_sync(f, j), "packed_path") THEN [resp |-> 404] @@ no
    ELSE IF ~safe_path(MAIN_DIR, read_meta_sync(f, j).packed_path).ok THEN [resp |-> 500] @@ no
    ELSE IF ~safe_path(MAIN_DIR \o << type >>, path).ok THEN [resp |-> 423] @@ no
    ELSE [resp |-> 0, meta |-> read_meta_sync(f, j),
          packed_abs |-> safe_path(MAIN_DIR, read_meta_sync(f, j).packed_path).target,
          real_path |-> safe_path(MAIN_DIR \o << type >>, path).target]

MvUpd(m, upd) == [mv EXCEPT ![m] = Merge(@, upd)]
MoveStep(m, f, upd) ==
    /\ fs' = f
    /\ mv' = MvUpd(m, (IF upd.pc = "done" THEN MoveLocals ELSE [pc |-> upd.pc]) @@ upd)
    /\ UNCHANGED << JOB_STATE, proc, ws, req, config, clock >>

\* lines 866-909: the checks, meta.json read, the destination resolved; unsafe
\* records that the request named an allowed type and a path outside its directory
transfer_move(m) ==
    /\ mv[m].pc = "idle"
    /\ \A o \in DOMAIN mv : o < m => mv[o].pc # "idle"
    /\ Accepts
    /\ \E type \in MoveTypes, path \in MovePaths :
        LET c == transfer_move_checks(fs, JChars, type, path)
            in == [unsafe |-> is_allowed_type(type) /\ resolves_outside(MAIN_DIR \o << type >>, path)]
        IN IF c.resp # 0
           THEN MoveStep(m, fs, in @@ [pc |-> "done", resp |-> c.resp])
           ELSE MoveStep(m, fs, in @@ [pc |-> "mv_move"] @@ c)

\* lines 909-923: os.makedirs of the destination's directory, shutil.move (a
\* missing packed file makes it raise: 500), os.path.getsize, meta.json written
\* from the copy read at the start of the request
transfer_move_file(m) ==
    /\ mv[m].pc = "mv_move"
    /\ LET src == mv[m].packed_abs
           dst == mv[m].real_path
       IN
       IF ~IsFile(fs, src)
       THEN MoveStep(m, MakeDirs(fs, SubSeq(dst, 1, Len(dst) - 1)), [pc |-> "done", resp |-> 500])
       ELSE LET f1 == Put(Del(MakeDirs(fs, SubSeq(dst, 1, Len(dst) - 1)), src), dst, fs[src])
                meta == MergeAdd(mv[m].meta, [final_path |-> RelPath(dst),
                                              final_bytes |-> f1[dst].len, status |-> "moved"])
            IN MoveStep(m, write_meta_sync(f1, J, meta),
                        [pc |-> "mv_rmtree", final_path |-> dst, final_bytes |-> f1[dst].len])

\* a faulty variant: rmtree spares meta.json
transfer_move_rmtree_keeps_meta(m) ==
    /\ mv[m].pc = "mv_rmtree"
    /\ MoveStep(m, [q \in DOMAIN fs \ (Below(fs, job_dir(J)) \ {job_meta_path(J)}) |-> fs[q]],
                [pc |-> "mv_rmdir"])
\* shutil.rmtree(job_dir), first part: the entries found in the directory are removed
transfer_move_rmtree(m) ==
    /\ mv[m].pc = "mv_rmtree"
    /\ MoveStep(m, [q \in DOMAIN fs \ Below(fs, job_dir(J)) |-> fs[q]], [pc |-> "mv_rmdir"])

\* shutil.rmtree, last part: the directory itself is removed, which fails (and is
\* only logged, lines 926-929) when something was created in it meanwhile; then
\* the request answers 200
transfer_move_done(m) ==
    /\ mv[m].pc = "mv_rmdir"
    /\ MoveStep(m, IF Below(fs, job_dir(J)) = {} THEN RemoveIfExists(fs, job_dir(J)) ELSE fs,
                [pc |-> "done", resp |-> 200])

\* ------------------------------------------------ /transfer/ws/{job_id}
\* lines 702-735: the socket is accepted, added to the clients set and sent the
\* snapshot, all within the JOB_LOCK section
transfer_ws(s, job_id, token) ==
    /\ ws[s].st = "idle"
    /\ Accepts
    /\ IF transfer_ws_checks(token, job_id) # 0
       THEN /\ ws' = [ws EXCEPT ![s] = [@ EXCEPT !.st = "refused", !.token = token,
                                                 !.job_id = job_id,
                                                 !.code = transfer_ws_checks(token, job_id)]]
            /\ UNCHANGED JOB_STATE
       ELSE LET j == Str(job_id)
                S1 == IF j \in DOMAIN JOB_STATE THEN JOB_STATE ELSE Put(JOB_STATE, j, DefaultState)
            IN /\ JOB_STATE' = Put(S1, j, Merge(S1[j], [clients |-> S1[j].clients \cup {s}]))
               /\ ws' = [ws EXCEPT ![s] = [@ EXCEPT !.st = "open", !.token = token,
                                                    !.job_id = job_id]]
    /\ UNCHANGED << fs, proc, mv, req, config, clock >>

\* lines 736-746: the client goes away; the socket leaves the clients set
transfer_ws_disconnect(s) ==
    /\ ws[s].st = "open"
    /\ LET j == Str(ws[s].job_id) IN
       JOB_STATE' = IF j \in DOMAIN JOB_STATE
                    THEN Put(JOB_STATE, j, Merge(JOB_STATE[j],
                                                 [clients |-> JOB_STATE[j].clients \ {s}]))
                    ELSE JOB_STATE
    /\ ws' = [ws EXCEPT ![s].st = "gone"]
    /\ UNCHANGED << fs, proc, mv, req, config, clock >>

\* ------------------------------------------------------- specification
Next ==
    \/ \E r \in RunIds : transfer_start(r, StartToken)
    \/ \E r \in RunIds : transfer_start_spawn(r)
    \/ \E r \in RunIds : run_download_job_response(r)
    \/ \E r \in RunIds : run_download_job_chunk(r)
    \/ \E r \in RunIds : run_download_job_abort(r)
    \/ \E r \in RunIds : run_download_job_downloaded(r)
    \/ \E r \in RunIds, token \in UploadTokens : transfer_upload(r, token)
    \/ \E r \in RunIds : transfer_upload_chunk(r)
    \/ \E r \in RunIds : transfer_upload_abort(r)
    \/ \E r \in RunIds : transfer_upload_uploaded(r)
    \/ \E r \in RunIds : transfer_upload_image(r)
    \/ \E q \in RepackIds : transfer_repack(q)
    \/ \E p \in Procs : run_repack_job_probe(p)
    \/ \E p \in Procs : run_repack_job_extract(p)
    \/ \E p \in Procs : run_repack_job_zip(p)
    \/ \E m \in MoveIds : transfer_move(m)
    \/ \E m \in MoveIds : transfer_move_file(m)
    \/ \E m \in MoveIds : transfer_move_rmtree(m)
    \/ \E m \in MoveIds : transfer_move_done(m)
    \/ \E s \in Subs : transfer_ws(s, JChars, WsToken)
    \/ \E s \in Subs : transfer_ws_disconnect(s)

Spec == Init /\ [][Next]_vars

\* C17: the callback_context mapping carried by a job's transfer token is
\* returned verbatim in that job's completion callback, for success and error
\* outcomes alike and in download mode as in upload mode: a run that has sent
\* its callback sent the callback_context of its token.
C17_CallbackContextVerbatim ==
    \A r \in RunIds :
        (proc[r].ncb > 0 /\ Has(proc[r].token.claims, "callback_context"))
            => proc[r].sent = proc[r].token.claims.callback_context

\* process p is in _run_repack_job
Repacking(p) == proc[p].pc \in {"rp_probe", "rp_extract", "rp_zip"}
\* the files of the job directory whose name starts with "packed."
PackedFiles(f) == {q \in {packed_zip(J), packed_webp(J)} : Exists(f, q)}

\* C22: when _run_repack_job finds its source (download_abs) to be a canonical
\* zip, it leaves every file as it is, the source included, publishes "packed",
\* and records the path of the source as packed_path
C22_CanonicalZipKept ==
    [][\A p \in Procs :
          (proc[p].pc = "rp_probe" /\ proc'[p].pc # "rp_probe"
             /\ probe_archive(fs, proc[p].src) = "zipc")
          => /\ proc'[p].packed
             /\ JOB_STATE'[J].stage = "packed"
             /\ \A q \in DOMAIN fs : fs[q].t = "file" => q \in DOMAIN fs' /\ fs'[q] = fs[q]
             /\ \A q \in DOMAIN fs' : fs'[q].t = "file" => q \in DOMAIN fs
             /\ HasMeta(fs, J) =>
                   /\ HasMeta(fs', J)
                   /\ read_meta_sync(fs', J).packed_path = RelPath(proc[p].src)
                   /\ read_meta_sync(fs', J).packed_bytes = fs[proc[p].src].len]_vars

\* an upload run ended packed on a canonical zip that meta.json names both as
\* download_path and as packed_path; no packed.* file was made
C22_Witness ==
    /\ \E r \in RunIds : proc[r].pc = "done" /\ proc[r].packed /\ proc[r].mode = "upload"
    /\ HasMeta(fs, J)
    /\ Has(read_meta_sync(fs, J), "packed_path")
    /\ read_meta_sync(fs, J).packed_path = read_meta_sync(fs, J).download_path
    /\ LET src == safe_path(MAIN_DIR, read_meta_sync(fs, J).packed_path).target
       IN IsFile(fs, src) /\ fs[src].kind = "zipc" /\ fs[src].st = "whole"
    /\ PackedFiles(fs) = {}

\* C23: when _run_repack_job ends with success, the packed file it recorded is
\* its source only if the source is a canonical zip, and otherwise the
\* packed.zip that this run created
C23_FreshPackedZip ==
    [][\A p \in Procs :
          (Repacking(p) /\ ~proc[p].packed /\ proc'[p].packed /\ HasMeta(fs', J))
          => LET rel == read_meta_sync(fs', J).packed_path IN
             \/ rel = RelPath(proc[p].src) /\ probe_archive(fs, proc[p].src) = "zipc"
             \/ /\ rel = RelPath(packed_zip(J))
                /\ probe_archive(fs, proc[p].src) # "zipc"
                /\ IsFile(fs', packed_zip(J))
                /\ fs'[packed_zip(J)].by = p]_vars

\* an upload in image mode
ImageRun(r) ==
    /\ proc[r].mode = "upload"
    /\ proc[r].token # NoneD
    /\ Has(proc[r].token.claims, "transfer_kind")
    /\ proc[r].token.claims.transfer_kind = "img"

C26_UploadDisconnectCleansUp ==
    [][\A r \in RunIds :
          /\ (proc[r].mode = "upload" /\ proc[r].pc = "up_stream" /\ proc'[r].fail = "exception")
                => /\ ~Exists(fs', proc[r].src)
                   /\ JOB_STATE'[J].status = "error"
                   /\ HasMeta(fs', J) => read_meta_sync(fs', J).status = "error"
                   /\ proc'[r].cb = "error"
                   /\ proc'[r].reason = "exception"
                   /\ proc'[r].ncb = proc[r].ncb + 1
                   /\ proc'[r].resp = 500
                   /\ JOB_STATE'[J].clients = {}
                   /\ \A s \in JOB_STATE[J].clients : ws'[s].st = "closed"
                   /\ proc'[r].pc = "done"
                   /\ ~proc'[r].packed
          /\ proc[r].pc = "done" => proc'[r] = proc[r]]_vars

\* an upload whose client went away after a chunk had been written has ended:
\* the source is gone, the subscriber closed
C26_Witness ==
    \E r \in RunIds :
        /\ proc[r].mode = "upload"
        /\ proc[r].pc = "done"
        /\ proc[r].fail = "exception"
        /\ proc[r].cb = "error"
        /\ ~proc[r].packed
        /\ JOB_STATE[J].status = "error"
        /\ JOB_STATE[J].bytes > 0
        /\ ~Exists(fs, safe_path(MAIN_DIR, download_rel(J)).target)
        /\ \E s \in Subs : ws[s].st = "closed"

\* C24: when the source of a job is found encrypted, the handling of it leaves
\* no source file and no packed.* file, and the job in error with the reason
\* encrypted_zip
C24_EncryptedSourceRemoved ==
    [][\A p \in Procs :
          (proc[p].fail # "encrypted_zip" /\ proc'[p].fail = "encrypted_zip")
          => /\ ~Exists(fs', proc[p].src)
             /\ PackedFiles(fs') = {}
             /\ JOB_STATE'[J].status = "error"
             /\ JOB_STATE'[J].error = "encrypted_zip"]_vars

\* ------------------------------------------------------ path resolution
\* Specification PathSpec: a server holding one packed job receives requests
\* whose job_id, filename, type and path are drawn from the sets below; req
\* records how the handler answered and the paths it resolved for reading and
\* for creating, writing, moving or deleting.
OtherJobChars == << "j", "o", "b", "_", "w", "x", "y", "z" >>
LongJobChars == [i \in 1..129 |-> "a"]
JobIdInputs ==
    { JChars, OtherJobChars, LongJobChars, << >>, << "s", "h", "o", "r", "t" >>,
      << ".", ".", "/", ".", ".", "/", "e", "t", "c", "x" >>,
      << "j", "o", "b", "/", ".", ".", "/", "j", "o", "b" >> }
FilenameInputs ==
    { << >>, << "a", ".", "z", "i", "p" >>, << ".", "." >>, << ".", ".", "/", ".", "." >>,
      << ".", ".", "/", ".", ".", "/", "e", "t", "c", "/", "p", "w" >>,
      << "/", "e", "t", "c", "/", "p", "w" >>, << "m", "e", "t", "a", ".", "j", "s", "o", "n" >>,
      << "a", " ", "b", "$", ".", "_" >>, << "x", "/" >> }
TypeInputs == ALLOWED_TYPES \cup {"temp", "..", ""}
PathInputs ==
    MovePaths \cup { << >>, << "x", "..", "..", "archive", "1.zip" >>,
                     << "..", "temp", J, "meta.json" >> }

\* the disk and the registry after one upload of a canonical zip for job J
PackedFs ==
    LET src == safe_path(MAIN_DIR, download_rel(J)).target
        f0 == write_meta_sync([q \in {} |-> DirEntry], J,
                              [job_id |-> J, download_path |-> download_rel(J),
                               status |-> "uploading"])
        f1 == CloseFile(WriteChunk(OpenWrite(f0, src, 1), 1, 1), 1, 1, "zipc")
    IN update_meta(update_meta(f1, J, [status |-> "uploaded"]), J,
                   packed_meta(RelPath(src), ChunkBytes))
PackedState ==
    Put([j \in {} |-> DefaultState], J,
        [status |-> "done", stage |-> "packed", bytes |-> ChunkBytes, total |-> NoneT,
         error |-> "None", clients |-> {}])
PackedProc ==
    Merge(IdleProc, [pc |-> "done", mode |-> "upload", resp |-> 200, packed |-> TRUE,
                     cb |-> "success", ncb |-> 1, bcDone |-> TRUE])

PathInit ==
    /\ JOB_STATE = PackedState
    /\ fs = PackedFs
    /\ proc = [p \in Procs |-> IF p = 1 THEN PackedProc ELSE IdleProc]
    /\ mv = [m \in MoveIds |-> IdleMove]
    /\ ws = [s \in Subs |-> IdleSock]
    /\ req = IdleReq
    /\ config = Configured
    /\ clock = 0

Answer(op, job_id, type, path, filename, resp, reads, writes) ==
    /\ req' = [op |-> op, job_id |-> job_id, type |-> type, path |-> path,
               filename |-> filename, resp |-> resp, reads |-> reads, writes |-> writes]
    /\ UNCHANGED << JOB_STATE, fs, proc, mv, ws, config, clock >>

\* the paths a run of job j on the source file src works on: meta.json, the
\* source, the repack directory and what is moved into it, the packed file
run_paths(j, src, name) ==
    {job_meta_path(j), src, repack_abs(j), repack_abs(j) \o << name >>, packed_zip(j),
     packed_webp(j)}

\* main.py lines 162-178 and 197: the paths of /transfer/start
transfer_start_paths(job_id, filename) ==
    LET name == Str(sanitize_filename(filename, << "f", "i", "l", "e", ".", "b", "i", "n" >>))
        abs == safe_path(MAIN_DIR, << "temp", Str(job_id), name >>)
    IN
    IF ~is_safe_job_id(job_id) THEN Answer("start", job_id, "", << >>, filename, 400, {}, {})
    ELSE IF ~abs.ok THEN Answer("start", job_id, "", << >>, filename, 500, {}, {})
    ELSE IF Str(job_id) \in DOMAIN JOB_STATE
    THEN Answer("start", job_id, "", << >>, filename, 200, {}, {})
    ELSE Answer("start", job_id, "", << >>, filename, 200, {job_meta_path(Str(job_id))},
                run_paths(Str(job_id), abs.target, name))

\* main.py lines 326-394: the paths of /transfer/upload
transfer_upload_paths(job_id, filename) ==
    LET name == Str(sanitize_filename(filename, << "u", "p", "l", "o", "a", "d", ".", "z", "i", "p" >>))
        abs == safe_path(MAIN_DIR, << "temp", Str(job_id), name >>)
    IN
    IF ~is_safe_job_id(job_id) THEN Answer("upload", job_id, "", << >>, filename, 400, {}, {})
    ELSE IF ~abs.ok THEN Answer("upload", job_id, "", << >>, filename, 500, {}, {})
    ELSE Answer("upload", job_id, "", << >>, filename, 200, {job_meta_path(Str(job_id))},
                run_paths(Str(job_id), abs.target, name))

\* main.py lines 791-806: the paths of /transfer/repack
transfer_repack_paths(job_id) ==
    LET j == Str(job_id) IN
    IF ~is_safe_job_id(job_id) THEN Answer("repack", job_id, "", << >>, << >>, 400, {}, {})
    ELSE IF ~HasMeta(fs, j) \/ ~Has(read_meta_sync(fs, j), "download_path")
    THEN Answer("repack", job_id, "", << >>, << >>, 404, {job_meta_path(j)}, {})
    ELSE LET abs == safe_path(MAIN_DIR, read_meta_sync(fs, j).download_path) IN
         IF ~abs.ok THEN Answer("repack", job_id, "", << >>, << >>, 500, {job_meta_path(j)}, {})
         ELSE Answer("repack", job_id, "", << >>, << >>, 200, {job_meta_path(j)},
                     run_paths(j, abs.target, abs.target[Len(abs.target)]) \ {packed_webp(j)})

\* main.py lines 880-929: the paths of /transfer/move
transfer_move_paths(job_id, type, path) ==
    LET c == transfer_move_checks(fs, job_id, type, path)
        j == Str(job_id)
        reads == IF is_safe_job_id(job_id) /\ is_allowed_type(type) THEN {job_meta_path(j)} ELSE {}
    IN
    IF c.resp # 0 THEN Answer("move", job_id, type, path, << >>, c.resp, reads, {})
    ELSE Answer("move", job_id, type, path, << >>, 200, reads,
                {c.packed_abs, c.real_path, job_meta_path(j), job_dir(j)})

PathNext ==
    \/ \E job_id \in JobIdInputs, filename \in FilenameInputs : transfer_start_paths(job_id, filename)
    \/ \E job_id \in JobIdInputs, filename \in FilenameInputs : transfer_upload_paths(job_id, filename)
    \/ \E job_id \in JobIdInputs : transfer_repack_paths(job_id)
    \/ \E job_id \in JobIdInputs, type \in TypeInputs, path \in PathInputs :
          transfer_move_paths(job_id, type, path)

PathSpec == PathInit /\ [][PathNext]_vars

\* ----------------------------------------------------------------- claims
\* the runs of the job: download tasks and upload requests
Runs == {r \in RunIds : proc[r].mode \in {"download", "upload"}}
\* the runs that ingest or process the job
ActiveRuns == {r \in Runs : proc[r].pc \notin {"idle", "done"}}
\* the job's meta.json names a packed file
MetaPacked == HasMeta(fs, J) /\ Has(read_meta_sync(fs, J), "packed_path")
\* the files of permanent storage
Promoted == {q \in DOMAIN fs : fs[q].t = "file" /\ ~IsPrefix(ROOT \o << "temp" >>, q)}
\* the source and packed files of temp/<job_id>/ on disk f (the members that an
\* extraction left in repack/ are not counted)
JobFiles(f) == {q \in Below(f, job_dir(J)) : f[q].t = "file" /\ f[q].kind # "tree"}

\* C1: a start request for a job_id the registry already holds changes neither
\* the registry nor the disk, spawns no task and answers 200 with the job's
\* current status; at most one download task is ever spawned for the job, and
\* the download tasks of the job send at most one callback in all.
C1_SecondStartSpawnsNothing ==
    [][ /\ Cardinality({r \in RunIds : proc'[r].spawned}) <= 1
        /\ Cardinality({r \in RunIds : proc'[r].mode = "download" /\ proc'[r].ncb > 0}) <= 1
        /\ \A r \in RunIds : proc'[r].mode \in {"download", "start"} => proc'[r].ncb <= 1
        /\ \A r \in RunIds :
             (proc[r].pc = "idle" /\ proc'[r].pc # "idle" /\ J \in DOMAIN JOB_STATE
                /\ proc'[r].mode # "upload")
             => /\ proc'[r].mode = "start"
                /\ proc'[r].pc = "done"
                /\ proc'[r].resp = 200
                /\ proc'[r].rstatus = JOB_STATE[J].status
                /\ ~proc'[r].spawned
                /\ proc'[r].ncb = 0
                /\ JOB_STATE' = JOB_STATE
                /\ fs' = fs
        /\ \A r \in RunIds : proc[r].mode = "start" => proc'[r] = proc[r] ]_vars

\* C1, its case: a second start arrived while the first one's task was
\* downloading, and the task has ended with its one callback sent
C1_Witness ==
    \E r1, r2 \in RunIds :
        /\ proc[r1].mode = "download" /\ proc[r1].pc = "done" /\ proc[r1].ncb = 1
        /\ proc[r2].mode = "start" /\ proc[r2].rstatus = "downloading" /\ proc[r2].resp = 200

\* C2: at any time, at most one run (download task or upload handler) of the
\* job is ingesting or processing it.
C2_AtMostOneActiveRun == Cardinality(ActiveRuns) <= 1

\* C3: no subscriber of the job is ever sent a stage that lies before the stage
\* it was sent last.
C3_StagesNeverRegress == \A s \in Subs : ~ws[s].regress

\* C4: a run sends no callback before it ends and exactly one when it ends:
\* status success if and only if it reached packed, status error if and only if
\* it failed.
C4_ExactlyOneCallback ==
    \A r \in Runs :
        /\ proc[r].ncb <= 1
        /\ proc[r].pc # "done" => proc[r].ncb = 0 /\ proc[r].cb = "none"
        /\ proc[r].pc = "done" =>
             /\ proc[r].ncb = 1
             /\ proc[r].cb \in {"success", "error"}
             /\ proc[r].cb = "success" <=> (proc[r].packed /\ proc[r].fail = "None")
             /\ proc[r].cb = "error" <=> (~proc[r].packed /\ proc[r].fail # "None")
             /\ proc[r].cb = "error" => proc[r].reason = proc[r].fail

\* C4, its case: one run has ended packed and another has ended in a failure
C4_Witness ==
    \E r1, r2 \in Runs :
        /\ proc[r1].pc = "done" /\ proc[r1].cb = "success" /\ proc[r1].packed
        /\ proc[r2].pc = "done" /\ proc[r2].cb = "error" /\ proc[r2].fail # "None"

\* C5: every failure of a run has set the registry status to error, broadcast
\* an error event and sent a callback with status error.
C5_FailureSetsErrorAndBroadcasts ==
    \A r \in Runs :
        proc[r].fail # "None" => proc[r].sawErr /\ proc[r].bcErr /\ proc[r].cb = "error"

\* C6: every file of permanent storage is the complete packed artifact of the
\* job.
C6_OnlyCompleteArtifactsPromoted ==
    \A q \in Promoted : fs[q].st = "whole" /\ fs[q].kind \in {"zip", "zipc", "webp"}

\* C7: when a stream exceeds max_bytes, the run ends with the registry in error
\* with reason size_limit, no source or packed file is left in temp/<job_id>/,
\* an upload is answered 413 and a callback with status error is sent.
C7_SizeLimitLeavesNoFile ==
    [][ \A r \in RunIds :
          (proc[r].fail = "None" /\ proc'[r].fail = "size_limit")
          => /\ JOB_STATE'[J].status = "error"
             /\ JOB_STATE'[J].error = "size_limit"
             /\ proc'[r].cb = "error"
             /\ proc'[r].reason = "size_limit"
             /\ proc'[r].mode = "upload" => proc'[r].resp = 413
             /\ JobFiles(fs') = {} ]_vars

\* C8: when a move answers 200, temp/<job_id>/ does not exist and final_bytes
\* is the size of the file at final_path.
C8_MoveRemovesJobDir ==
    [][ \A m \in MoveIds :
          (mv[m].pc # "done" /\ mv'[m].pc = "done" /\ mv'[m].resp = 200)
          => /\ ~Exists(fs', job_dir(J))
             /\ IsFile(fs', mv'[m].final_path)
             /\ fs'[mv'[m].final_path].len = mv'[m].final_bytes ]_vars

\* C9: a move request that names an allowed type and a path resolving outside
\* <root>/<type>/ ends at once and leaves the disk (the packed artifact,
\* meta.json, permanent storage) and the registry as they are; the move of a job
\* that has a packed artifact is answered 423.
C9_UnsafeMoveChangesNothing ==
    [][ \A m \in MoveIds :
          (mv[m].pc = "idle" /\ mv'[m].pc # "idle" /\ mv'[m].unsafe)
          => /\ mv'[m].pc = "done"
             /\ fs' = fs
             /\ JOB_STATE' = JOB_STATE
             /\ MetaPacked => mv'[m].resp = 423 ]_vars

\* C9, its case: a move with an escaping path was answered 423 and the packed
\* artifact lies where meta.json says
C9_Witness ==
    \E m \in MoveIds :
        /\ mv[m].pc = "done" /\ mv[m].unsafe /\ mv[m].resp = 423
        /\ MetaPacked
        /\ IsFile(fs, safe_path(MAIN_DIR, read_meta_sync(fs, J).packed_path).target)
        /\ Promoted = {}

\* the request's path lies outside the directory of its type
ReqEscapes == req.op = "move" /\ resolves_outside(MAIN_DIR \o << req.type >>, req.path)
\* p is under <root>/<type>/ for the allowed type of the request, or under
\* <root>/temp/<job_id>/
ReqConfined(p) ==
    \/ IsPrefix(ROOT \o << "temp", Str(req.job_id) >>, p)
    \/ is_allowed_type(req.type) /\ IsPrefix(ROOT \o << req.type >>, p)
\* the job's meta.json named a packed file when the request came
ReqMetaPacked ==
    HasMeta(fs, Str(req.job_id)) /\ Has(read_meta_sync(fs, Str(req.job_id)), "packed_path")

\* C10 (amended): every path a request resolves, for reading or for creating,
\* writing, moving or deleting, lies under <root>/<type>/ or <root>/temp/<job_id>/,
\* for all job_id, filename, type and path; a request with an unsafe job_id or a
\* type that is not allowed is answered 400 and touches no file; a move whose
\* path escapes <root>/<type>/ creates, moves and deletes nothing (it has read
\* the job's meta.json) and is answered 423 when the job has a packed artifact
\* and 404 when it has none; 423 is answered to no other request.
C10_PathsConfined ==
    /\ \A p \in req.reads \cup req.writes : ReqConfined(p)
    /\ (req.op # "none" /\ ~is_safe_job_id(req.job_id))
         => req.resp = 400 /\ req.reads = {} /\ req.writes = {}
    /\ (req.op = "move" /\ ~is_allowed_type(req.type))
         => req.resp = 400 /\ req.reads = {} /\ req.writes = {}
    /\ (ReqEscapes /\ is_safe_job_id(req.job_id) /\ is_allowed_type(req.type))
         => /\ req.writes = {}
            /\ req.reads = {job_meta_path(Str(req.job_id))}
            /\ req.resp = IF ReqMetaPacked THEN 423 ELSE 404
    /\ req.resp = 423 => ReqEscapes
    /\ req.resp # 500

\* C10, its cases: an escaping move answered 423, or a file name made of dots
\* and separators resolved inside the job's directory
C10_Witness ==
    \/ req.op = "move" /\ req.resp = 423 /\ req.path = << "..", "evil" >>
    \/ /\ req.op = "upload" /\ req.resp = 200
       /\ req.filename = << ".", ".", "/", ".", "." >>
       /\ req.job_id = OtherJobChars
       /\ req.writes # {}

\* C10 as the spec states it: every resolved path is confined, and a request
\* whose job_id, type or path would take its target elsewhere is answered 423
\* with no file created, read or deleted.
C10_AsStated ==
    /\ \A p \in req.reads \cup req.writes : ReqConfined(p)
    /\ (req.op # "none"
          /\ (ReqEscapes \/ ~is_safe_job_id(req.job_id)
                \/ (req.op = "move" /\ ~is_allowed_type(req.type))))
         => req.resp = 423 /\ req.reads = {} /\ req.writes = {}

\* --------------------------------------------------- filename sanitation
\* Specification SanitizeSpec: tools.sanitize_filename is applied to a file name
\* drawn from SanitizeInputs, and then to its own result; req holds the name
\* and the two results.
NameChars == {"a", ".", "_", "/", " ", "$"}
ShortNames == UNION {[1..n -> NameChars] : n \in 0..MaxNameLen}
LongNames ==
    { [i \in 1..127 |-> "a"] \o << ".", "b" >>,
      [i \in 1..128 |-> "a"] \o << ".", "z", "i", "p" >>,
      [i \in 1..127 |-> "a"] \o << "_", "_", "b" >>,
      [i \in 1..200 |-> "a"],
      << ".", "/" >> \o [i \in 1..128 |-> "b"] \o << "." >> }
\* the names the code itself uses in temp/<job_id>/: meta.json (_job_meta_path),
\* packed.zip and repack (_run_repack_job), packed.webp (transfer_upload)
ReservedNames ==
    { << "m", "e", "t", "a", ".", "j", "s", "o", "n" >>,
      << "p", "a", "c", "k", "e", "d", ".", "z", "i", "p" >>,
      << "p", "a", "c", "k", "e", "d", ".", "w", "e", "b", "p" >>,
      << "r", "e", "p", "a", "c", "k" >> }
\* file names a client can send that are, or hold, a reserved name
ReservedInputs ==
    ReservedNames \cup {<< "x", "/" >> \o n : n \in ReservedNames}
                  \cup {<< ".", " " >> \o n \o << "$", "." >> : n \in ReservedNames}
SanitizeInputs == ShortNames \cup LongNames \cup ReservedInputs
SanitizeDefaults ==
    { << "f", "i", "l", "e", ".", "b", "i", "n" >>,
      << "u", "p", "l", "o", "a", "d", ".", "z", "i", "p" >>,
      << "u", "p", "l", "o", "a", "d", ".", "i", "m", "g" >> }

SanitizeInit ==
    /\ JOB_STATE = [j \in {} |-> DefaultState]
    /\ fs = [q \in {} |-> DirEntry]
    /\ proc = [p \in Procs |-> IdleProc]
    /\ mv = [m \in MoveIds |-> IdleMove]
    /\ ws = [s \in Subs |-> IdleSock]
    /\ \E x \in SanitizeInputs, d \in SanitizeDefaults :
          req = [op |-> "name", filename |-> x, default |-> d, once |-> << >>, twice |-> << >>]
    /\ config = Configured
    /\ clock = 0

\* safe_name = tools.sanitize_filename(filename)
sanitize_once ==
    /\ req.op = "name"
    /\ req' = [req EXCEPT !.op = "once", !.once = sanitize_filename(req.filename, req.default)]
    /\ UNCHANGED << JOB_STATE, fs, proc, mv, ws, config, clock >>

\* tools.sanitize_filename applied to its own result
sanitize_twice ==
    /\ req.op = "once"
    /\ req' = [req EXCEPT !.op = "twice", !.twice = sanitize_filename(req.once, req.default)]
    /\ UNCHANGED << JOB_STATE, fs, proc, mv, ws, config, clock >>

SanitizeNext == sanitize_once \/ sanitize_twice
SanitizeSpec == SanitizeInit /\ [][SanitizeNext]_vars

\* C20: sanitizing a sanitized name changes nothing; the sanitized name has only
\* characters of the allowed set (letters, digits, "_", "-", ".") and at most
\* 128 of them.
C20_SanitizeFixedPoint ==
    /\ req.op \in {"once", "twice"} =>
         /\ Len(req.once) <= 128
         /\ \A i \in 1..Len(req.once) : req.once[i] \in ALLOWED_FILENAME_CHARS_WITH_DOT
    /\ req.op = "twice" => req.twice = req.once

\* C37: the sanitized file name of a job is none of the names the code itself
\* uses in the job directory
C37_NameNotReserved ==
    req.op \in {"once", "twice"} => req.once \notin ReservedNames

\* ------------------------------------------------------ token round trip
\* Specification TokenSpec: tools.encode_transfer_jwt is applied to a payload,
\* an audience and a ttl drawn from the sets below, time passes, the token may
\* be replaced by one that another key signed, and tools.decode_transfer_jwt is
\* applied to it; req holds the arguments and the results.
Audiences == {"storage", "manager"}
PayloadInputs ==
    { [job_id |-> J],
      [job_id |-> J, status |-> "success", callback_context |-> [mod_id |-> 7]],
      [job_id |-> J, aud |-> "other", exp |-> 0] }

TokenInit ==
    /\ JOB_STATE = [j \in {} |-> DefaultState]
    /\ fs = [q \in {} |-> DirEntry]
    /\ proc = [p \in Procs |-> IdleProc]
    /\ mv = [m \in MoveIds |-> IdleMove]
    /\ ws = [s \in Subs |-> IdleSock]
    /\ config \in {Configured, [TRANSFER_JWT_SECRET |-> NoSecret]}
    /\ clock = 0
    /\ \E payload \in PayloadInputs, audience \in Audiences, ttl \in 0..MaxTtl :
          req = [op |-> "args", payload |-> payload, audience |-> audience, ttl |-> ttl,
                 token |-> NoneD, iat |-> 0, resigned |-> FALSE,
                 decode_audience |-> "", decoded_at |-> 0, result |-> NoneD]

\* time.time() / datetime.now() move on
tick ==
    /\ clock < MaxClock
    /\ clock' = clock + 1
    /\ UNCHANGED << JOB_STATE, fs, proc, mv, ws, req, config >>

token_encode ==
    /\ req.op = "args"
    /\ req' = [req EXCEPT !.op = "encoded", !.iat = clock,
                          !.token = encode_transfer_jwt(req.payload, req.audience, req.ttl)]
    /\ UNCHANGED << JOB_STATE, fs, proc, mv, ws, config, clock >>

\* somebody who holds another key signs the same claims
token_resign ==
    /\ req.op = "encoded"
    /\ req.token # NoneD
    /\ ~req.resigned
    /\ req' = [req EXCEPT !.resigned = TRUE, !.token = jwt_encode(req.token.claims, OtherSecret)]
    /\ UNCHANGED << JOB_STATE, fs, proc, mv, ws, config, clock >>

token_decode ==
    /\ req.op = "encoded"
    /\ req.token # NoneD
    /\ \E audience \in Audiences :
          req' = [req EXCEPT !.op = "decoded", !.decode_audience = audience,
                             !.decoded_at = clock,
                             !.result = decode_transfer_jwt(req.token, audience)]
    /\ UNCHANGED << JOB_STATE, fs, proc, mv, ws, config, clock >>

TokenNext == tick \/ token_encode \/ token_resign \/ token_decode
TokenSpec == TokenInit /\ [][TokenNext]_vars

UnsafeJobChars == << ".", ".", "/", "e", "t", "c", "x", "x" >>
\* the ways a token for the claims G fails, and the token itself
TokenInputs(G) ==
    { NoneD, Garbage, jwt_encode(G, OtherSecret), jwt_encode(G, NoSecret),
      jwt_encode([G EXCEPT !.aud = "manager"], Secret),
      jwt_encode([G EXCEPT !.exp = 0], Secret),
      jwt_encode([G EXCEPT !.job_id = UnsafeJobChars], Secret),
      jwt_encode(G, Secret) }
StartTokenInputs ==
    TokenInputs(StartToken.claims)
      \cup { jwt_encode(Claims(JChars, "storage", Fresh), Secret),
             jwt_encode([StartToken.claims EXCEPT !.download_url = ""], Secret),
             jwt_encode([StartToken.claims EXCEPT !.download_url = "ftp"], Secret) }
UploadTokenInputs ==
    TokenInputs(ArchiveToken.claims)
      \cup { ImgToken,
             jwt_encode([ArchiveToken.claims EXCEPT !.transfer_kind = "video"], Secret),
             jwt_encode(MergeAdd(ArchiveToken.claims, [pack_format |-> "rar"]), Secret),
             jwt_encode(MergeAdd(ArchiveToken.claims, [pack_format |-> "zip"]), Secret),
             jwt_encode([ImgToken.claims EXCEPT !.storage_type = "archive"], Secret),
             jwt_encode([ImgToken.claims EXCEPT !.file_kind = "bin"], Secret) }
WsTokenInputs ==
    TokenInputs(WsToken.claims) \cup { jwt_encode(Claims(OtherJobChars, "storage", Fresh), Secret) }
WsJobInputs == {JChars, OtherJobChars}

IngressInit ==
    /\ JOB_STATE = [j \in {} |-> DefaultState]
    /\ fs = [q \in {} |-> DirEntry]
    /\ proc = [p \in Procs |-> IdleProc]
    /\ mv = [m \in MoveIds |-> IdleMove]
    /\ ws = [s \in Subs |-> IdleSock]
    /\ req = IdleReq
    /\ config \in {Configured, [TRANSFER_JWT_SECRET |-> NoSecret]}
    /\ clock = 0

IngressNext ==
    \/ \E r \in RunIds, token \in StartTokenInputs : transfer_start(r, token)
    \/ \E r \in RunIds : transfer_start_spawn(r)
    \/ \E r \in RunIds : run_download_job_response(r)
    \/ \E r \in RunIds : run_download_job_abort(r)
    \/ \E r \in RunIds, token \in UploadTokenInputs : transfer_upload(r, token)
    \/ \E r \in RunIds : transfer_upload_abort(r)
    \/ \E s \in Subs, job_id \in WsJobInputs, token \in WsTokenInputs : transfer_ws(s, job_id, token)
    \/ \E s \in Subs : transfer_ws_disconnect(s)

IngressSpec == IngressInit /\ [][IngressNext]_vars

\* a token that is missing, is no token, is not signed with the configured
\* secret, is for another audience or has expired
TokenRefused(token) ==
    \/ token = NoneD
    \/ token = Garbage
    \/ config.TRANSFER_JWT_SECRET = NoSecret
    \/ token.sig # Secret
    \/ token.claims.aud # "storage"
    \/ token.claims.exp <= clock
\* the job id of the token has a character outside A-Za-z0-9_- or a wrong length
UnsafeJobId(token) ==
    \/ Len(token.claims.job_id) \notin 8..128
    \/ \E i \in 1..Len(token.claims.job_id) :
          token.claims.job_id[i] \notin Lower \cup Upper \cup Digits \cup {"_", "-"}
\* the requests the handlers have to turn away
StartListed(token) ==
    \/ TokenRefused(token)
    \/ UnsafeJobId(token)
    \/ "download_url" \notin DOMAIN token.claims
    \/ token.claims.download_url \notin {"http", "https"}
UploadListed(token) ==
    \/ TokenRefused(token)
    \/ UnsafeJobId(token)
    \/ token.claims.transfer_kind \notin {"archive", "img"}
    \/ /\ token.claims.transfer_kind = "archive"
       /\ "pack_format" \in DOMAIN token.claims
       /\ token.claims.pack_format # "zip"
    \/ /\ token.claims.transfer_kind = "img"
       /\ \/ token.claims.storage_type \notin {"resource", "avatar"}
          \/ token.claims.file_kind # "img"
WsListed(token, job_id) ==
    \/ TokenRefused(token)
    \/ token.claims.job_id # job_id

\* C11: a start, upload or WebSocket request rejected for a missing or invalid
\* token, a wrong audience, an unsafe job id, a missing or non-http(s) download
\* URL or an unsupported kind or format is answered 4xx (the socket is closed
\* with 1008) in the step that receives it, and that step leaves the registry
\* and the disk as they were, starts no task and sends no callback.
C11_RejectedCreatesNoState ==
    [][ /\ \A r \in RunIds :
            ( /\ proc[r].pc = "idle"
              /\ proc'[r].pc # "idle"
              /\ \/ proc'[r].mode \in {"start", "download"} /\ StartListed(proc'[r].token)
                 \/ proc'[r].mode = "upload" /\ UploadListed(proc'[r].token) )
            => /\ proc'[r].pc = "done"
               /\ proc'[r].resp \in 400..499
               /\ ~proc'[r].spawned
               /\ proc'[r].ncb = 0
               /\ JOB_STATE' = JOB_STATE
               /\ fs' = fs
        /\ \A s \in Subs :
            ( /\ ws[s].st = "idle"
              /\ ws'[s].st # "idle"
              /\ WsListed(ws'[s].token, ws'[s].job_id) )
            => /\ ws'[s].st = "refused"
               /\ ws'[s].code = 1008
               /\ JOB_STATE' = JOB_STATE
               /\ fs' = fs
               /\ proc' = proc ]_vars

\* a start request with an ftp URL was answered 400 while an earlier request
\* had created the job
C11_Witness ==
    \E r \in RunIds :
        /\ proc[r].pc = "done"
        /\ proc[r].mode = "start"
        /\ proc[r].token # NoneD
        /\ ~TokenRefused(proc[r].token)
        /\ StartListed(proc[r].token)
        /\ proc[r].resp = 400
        /\ J \in DOMAIN JOB_STATE

\* C12: a socket is in the clients set of a job, and so receives its events,
\* only if it presented a token that decodes with audience storage and whose
\* job_id equals the job id of the path; any other socket that asked was closed
\* with 1008 and never accepted.
C12_SubscriberPresentedToken ==
    /\ \A j \in DOMAIN JOB_STATE : \A s \in JOB_STATE[j].clients :
          /\ ~WsListed(ws[s].token, ws[s].job_id)
          /\ Str(ws[s].job_id) = j
          /\ ws[s].st = "open"
    /\ \A s \in Subs :
          (ws[s].st # "idle" /\ WsListed(ws[s].token, ws[s].job_id))
            => /\ ws[s].st = "refused"
               /\ ws[s].code = 1008
               /\ \A j \in DOMAIN JOB_STATE : s \notin JOB_STATE[j].clients

\* a socket with a good token for another job was refused on the path of job J,
\* which has a registry entry
C12_Witness ==
    \E s \in Subs :
        /\ ws[s].st = "refused"
        /\ ws[s].job_id = JChars
        /\ ~TokenRefused(ws[s].token)
        /\ ws[s].token.claims.job_id = OtherJobChars
        /\ J \in DOMAIN JOB_STATE

\* C18: when the transfer secret is unconfigured every start and upload request
\* is answered 401 or 403 and every socket closed with 1008, no job is created
\* (no registry entry, nothing on disk, no task), and no callback is sent.
C18_UnconfiguredFailsClosed ==
    config.TRANSFER_JWT_SECRET = NoSecret =>
        /\ JOB_STATE = [j \in {} |-> DefaultState]
        /\ fs = [q \in {} |-> DirEntry]
        /\ \A p \in Procs :
              /\ proc[p].pc \in {"idle", "done"}
              /\ proc[p].pc = "done" => proc[p].resp \in {401, 403}
              /\ ~proc[p].spawned
              /\ proc[p].ncb = 0
        /\ \A s \in Subs : ws[s].st \in {"idle", "refused"}
        /\ \A s \in Subs : ws[s].st = "refused" => ws[s].code = 1008

\* without a secret, a request whose token is signed with the empty key was
\* answered 403 and a socket with such a token refused
C18_Witness ==
    /\ config.TRANSFER_JWT_SECRET = NoSecret
    /\ \E r \in RunIds :
          /\ proc[r].pc = "done"
          /\ proc[r].token # NoneD
          /\ proc[r].token.sig = NoSecret
          /\ proc[r].resp = 403
    /\ \E s \in Subs : ws[s].st = "refused" /\ ws[s].token # NoneD /\ ws[s].token.sig = NoSecret

\* ------------------------------------------------------------ pack_level
\* Specification LevelSpec: the value a request gives for pack_level (the claim
\* of a transfer token, the form field compression_level of /transfer/repack)
\* on its way to meta.json and to the archiver; req holds the value, the entry
\* point, and what was recorded and handed on.
MaxLevel == 11
\* a JSON value, or the text of a form field: v is the number an int or a
\* decimal string denotes, and the integral part of a float
Absent == [t |-> "absent", v |-> 0]
Null == [t |-> "null", v |-> 0]
Word == [t |-> "word", v |-> 0]
IntV(n) == [t |-> "int", v |-> n]
FloatV(n) == [t |-> "float", v |-> n]
TextV(n) == [t |-> "text", v |-> n]
LevelInputs ==
    {Absent, Null, Word} \cup {IntV(n) : n \in (0 - 1)..MaxLevel}
        \cup {FloatV(7), FloatV(MaxLevel)} \cup {TextV(5), TextV(MaxLevel)}
LevelEntries == {"start", "upload", "repack"}
\* no level recorded
NoLevel == 0 - 100

\* int(x): TypeError for None, ValueError for a string that is no number
py_int(x) == IF x.t \in {"int", "float", "text"} THEN [ok |-> TRUE, v |-> x.v] ELSE [ok |-> FALSE, v |-> 0]
\* "try: pack_level = int(payload.get("pack_level", 3)) except: pack_level = 3"
int_or_default(x) == IF x.t = "absent" THEN 3 ELSE IF py_int(x).ok THEN py_int(x).v ELSE 3
\* max(0, min(pack_level, 9))
clamped(n) == IF n < 0 THEN 0 ELSE IF n > 9 THEN 9 ELSE n

LevelInit ==
    /\ JOB_STATE = [j \in {} |-> DefaultState]
    /\ fs = [q \in {} |-> DirEntry]
    /\ proc = [p \in Procs |-> IdleProc]
    /\ mv = [m \in MoveIds |-> IdleMove]
    /\ ws = [s \in Subs |-> IdleSock]
    /\ \E x \in LevelInputs, e \in LevelEntries :
          req = [op |-> "request", entry |-> e, value |-> x, resp |-> 0, pack_level |-> NoLevel,
                 meta |-> NoLevel, archiver |-> NoLevel]
    /\ config = Configured
    /\ clock = 0

LevelStep(upd) ==
    /\ req' = Merge(req, upd)
    /\ UNCHANGED << JOB_STATE, fs, proc, mv, ws, config, clock >>

\* transfer_start, lines 181-184 and 212-231: pack_level goes to meta.json and
\* to callback_payload as int() gave it
transfer_start_level ==
    /\ req.op = "request"
    /\ req.entry = "start"
    /\ LET pack_level == int_or_default(req.value)
       IN LevelStep([op |-> "entered", pack_level |-> pack_level, meta |-> pack_level])

\* transfer_upload, lines 355-359 and 427-440
transfer_upload_level ==
    /\ req.op = "request"
    /\ req.entry = "upload"
    /\ LET pack_level == clamped(int_or_default(req.value))
       IN LevelStep([op |-> "entered", pack_level |-> pack_level, meta |-> pack_level])

\* transfer_repack, lines 781 and 811-815: "compression_level: int = Form(3)"
\* is refused with 422 by the framework unless it is absent or the text of an
\* integer; meta.json is not written before _run_repack_job
transfer_repack_level ==
    /\ req.op = "request"
    /\ req.entry = "repack"
    /\ IF req.value.t \notin {"absent", "int", "text"}
       THEN LevelStep([op |-> "refused", resp |-> 422])
       ELSE LevelStep([op |-> "entered",
                       pack_level |-> clamped(int_or_default(req.value))])

\* _run_repack_job, lines 1117-1138 (and line 1317, where the download task
\* reads pack_level back from callback_payload): the level goes to
\* tools.zip_dir_with_level, which puts it into "-mx=", and to meta.json
run_repack_job_level ==
    /\ req.op = "entered"
    /\ LevelStep([op |-> "packed", meta |-> req.pack_level, archiver |-> req.pack_level])

LevelNext ==
    \/ transfer_start_level
    \/ transfer_upload_level
    \/ transfer_repack_level
    \/ run_repack_job_level
LevelSpec == LevelInit /\ [][LevelNext]_vars

\* C21: whichever way a job came in, the pack_level in meta.json and the one
\* handed to the archiver is an integer from 0 to 9, and it is 3 when the value
\* was absent or no integer
C21_PackLevelClamped ==
    /\ req.meta # NoLevel => req.meta \in 0..9
    /\ req.archiver # NoLevel => req.archiver \in 0..9
    /\ (req.op = "packed" /\ req.value.t \in {"absent", "null", "word", "float"})
          => req.meta = 3 /\ req.archiver = 3

\* C29: the step that handles a failure of a run leaves meta.json with the
\* status "error" and the reason of the failure (under error_reason, or under
\* error as the except branches write it)
C29_FailurePersisted ==
    [][\A p \in Procs :
          (proc[p].fail = "None" /\ proc'[p].fail # "None")
          => /\ HasMeta(fs', J)
             /\ read_meta_sync(fs', J).status = "error"
             /\ \/ Has(read_meta_sync(fs', J), "error_reason")
                \/ Has(read_meta_sync(fs', J), "error")]_vars

\* C30: meta.json mirrors the stage of the job: after a step that publishes a
\* stage event of a job that has a meta.json (repacking and processing
\* included), the status in meta.json is that stage
C30_MetaMirrorsStage ==
    [][(/\ HasMeta(fs, J)
        /\ J \in DOMAIN JOB_STATE
        /\ J \in DOMAIN JOB_STATE'
        /\ JOB_STATE'[J].stage # JOB_STATE[J].stage)
       => /\ HasMeta(fs', J)
          /\ read_meta_sync(fs', J).status = JOB_STATE'[J].stage]_vars

\* the operations at work in the directory of job J: runs and repack requests,
\* and move requests
Busy == {p \in Procs : proc[p].pc \notin {"idle", "done"}}
BusyMoves == {m \in MoveIds : mv[m].pc \notin {"idle", "done"}}

\* C31: while a /transfer/repack or a /transfer/move is at work in temp/<job_id>/,
\* no other operation (download task, upload, repack, move) is at work in it
C31_JobDirSingleWriter ==
    (BusyMoves # {} \/ Busy \cap RepackIds # {})
        => Cardinality(Busy) + Cardinality(BusyMoves) <= 1

\* the registry without the subscriber sets
Observed(S) == [j \in DOMAIN S |-> [S[j] EXCEPT !.clients = {}]]

\* C34: a socket that attaches (or is refused) or detaches creates no registry
\* entry and changes nothing of an entry but its clients set
C34_SubscribersOnlyObserve ==
    [][\A s \in Subs :
          (ws'[s].st # ws[s].st /\ ws'[s].st \in {"open", "refused", "gone"})
          => Observed(JOB_STATE') = Observed(JOB_STATE)]_vars

\* C35: the first start call for job J, made with a valid token before any
\* other start, upload or repack call for it, goes on to spawn the download
\* task, whether or not a socket has attached to the job before
C35_StartAfterSubscriberSpawns ==
    [][\A r \in RunIds :
          (/\ \A p \in Procs : proc[p].pc = "idle"
           /\ proc'[r].pc # "idle"
           /\ proc'[r].mode \in {"start", "download"}
           /\ transfer_start_checks(proc'[r].token) = 0)
          => /\ proc'[r].mode = "download"
             /\ proc'[r].pc # "done"]_vars

\* C38: in the registry, a job has an error exactly when its status is "error"
C38_ErrorIffStatusError ==
    \A j \in DOMAIN JOB_STATE : (JOB_STATE[j].error # "None") <=> (JOB_STATE[j].status = "error")

\* C39: an upload that passed the checks of its request and has been answered
\* sent one callback: status success if and only if the answer is 200; any
\* other answer is 400, 413 or 500 and came with a callback of status error,
\* 413 with the reason size_limit and only with it, 400 with the reason
\* encrypted_zip or not_image and only with them
C39_UploadResponseMatchesCallback ==
    \A r \in RunIds :
        (proc[r].mode = "upload" /\ transfer_upload_checks(proc[r].token) = 0)
        => /\ proc[r].pc # "done" => proc[r].ncb = 0 /\ proc[r].resp = 0
           /\ proc[r].pc = "done"
                => /\ proc[r].ncb = 1
                   /\ proc[r].resp \in {200, 400, 413, 500}
                   /\ proc[r].resp = 200 <=> proc[r].cb = "success"
                   /\ proc[r].resp # 200 => proc[r].cb = "error"
                   /\ proc[r].resp = 413 <=> proc[r].reason = "size_limit"
                   /\ proc[r].resp = 400 <=> proc[r].reason \in {"encrypted_zip", "not_image"}

\* one upload was answered 200 with a success callback, another 413 with an
\* error callback of reason size_limit
C39_Witness ==
    \E r, o \in RunIds :
        /\ proc[r].mode = "upload" /\ proc[r].pc = "done"
        /\ proc[r].resp = 200 /\ proc[r].cb = "success" /\ proc[r].ncb = 1
        /\ proc[o].mode = "upload" /\ proc[o].pc = "done"
        /\ proc[o].resp = 413 /\ proc[o].cb = "error" /\ proc[o].reason = "size_limit"

\* C40: no step removes a job from the registry, and a start call for a job
\* that has an entry spawns no task and writes nothing, whatever became of the
\* job
C40_EntryKeptNoRespawn ==
    [][/\ DOMAIN JOB_STATE \subseteq DOMAIN JOB_STATE'
       /\ \A r \in RunIds :
             (/\ proc[r].pc = "idle"
              /\ proc'[r].pc # "idle"
              /\ proc'[r].mode \in {"start", "download"}
              /\ J \in DOMAIN JOB_STATE)
             => /\ proc'[r].mode = "start"
                /\ proc'[r].pc = "done"
                /\ ~proc'[r].spawned
                /\ fs' = fs
                /\ JOB_STATE' = JOB_STATE]_vars

\* a run of the job ended in error; a start call that came when the registry
\* said "error" was answered with that status and spawned nothing
C40_Witness ==
    \E r \in RunIds :
        /\ proc[r].mode = "start"
        /\ proc[r].pc = "done"
        /\ proc[r].resp = 200
        /\ proc[r].rstatus = "error"
        /\ ~proc[r].spawned
        /\ J \in DOMAIN JOB_STATE
        /\ \E o \in RunIds : proc[o].pc = "done" /\ proc[o].fail # "None"

\* ------------------------------------------------------ two move requests
\* Specification MoveSpec: the upload requests of job J and one move request
\* more than Spec has, so that a move can follow a move
MoveSpecIds == 1..(MaxMoves + 1)
MoveInit ==
    /\ JOB_STATE = [j \in {} |-> DefaultState]
    /\ fs = [q \in {} |-> DirEntry]
    /\ proc = [p \in Procs |-> IdleProc]
    /\ mv = [m \in MoveSpecIds |-> IdleMove]
    /\ ws = [s \in Subs |-> IdleSock]
    /\ req = IdleReq
    /\ config = Configured
    /\ clock = 0
MoveNext ==
    \/ \E r \in RunIds, token \in UploadTokens : transfer_upload(r, token)
    \/ \E r \in RunIds : transfer_upload_chunk(r)
    \/ \E r \in RunIds : transfer_upload_abort(r)
    \/ \E r \in RunIds : transfer_upload_uploaded(r)
    \/ \E r \in RunIds : transfer_upload_image(r)
    \/ \E p \in RunIds : run_repack_job_probe(p)
    \/ \E p \in RunIds : run_repack_job_extract(p)
    \/ \E p \in RunIds : run_repack_job_zip(p)
    \/ \E m \in MoveSpecIds : transfer_move(m)
    \/ \E m \in MoveSpecIds : transfer_move_file(m)
    \/ \E m \in MoveSpecIds : transfer_move_rmtree(m)
    \/ \E m \in MoveSpecIds : transfer_move_done(m)
MoveSpec == MoveInit /\ [][MoveNext]_vars

\* meta.json of job J is missing or records no packed_path
NothingPacked(f) == ~HasMeta(f, J) \/ ~Has(read_meta_sync(f, J), "packed_path")
\* move request o was answered 200 and the job was transferred once
MovedOnce(o) ==
    /\ mv[o].pc = "done"
    /\ mv[o].resp = 200
    /\ Cardinality({r \in RunIds : proc[r].pc # "idle"}) = 1

\* C28: a move request that finds no meta.json, or a meta.json without
\* packed_path, ends at once with 404 (400 if its type is not an allowed one)
\* and changes no file; a move request that comes after a move of the job was
\* answered 200 finds that, and the promoted file stays as it is
C28_MoveWithoutPackedIs404 ==
    [][\A m \in MoveSpecIds :
          (mv[m].pc = "idle" /\ mv'[m].pc # "idle")
          => /\ NothingPacked(fs)
                => /\ mv'[m].pc = "done"
                   /\ mv'[m].resp \in {400, 404}
                   /\ fs' = fs
                   /\ \A type \in MoveTypes, path \in MovePaths :
                         is_allowed_type(type)
                           => transfer_move_checks(fs, JChars, type, path).resp = 404
             /\ \A o \in MoveSpecIds \ {m} :
                   MovedOnce(o)
                   => /\ NothingPacked(fs)
                      /\ IsFile(fs, mv[o].final_path)
                      /\ IsFile(fs', mv[o].final_path)
                      /\ fs'[mv[o].final_path] = fs[mv[o].final_path]]_vars

\* the first move was answered 200; the second, which came after it, was
\* answered 404, and the promoted file is where the first put it
C28_Witness ==
    \E o, m \in MoveSpecIds :
        /\ o < m
        /\ MovedOnce(o)
        /\ mv[m].pc = "done"
        /\ mv[m].resp = 404
        /\ IsFile(fs, mv[o].final_path)
        /\ fs[mv[o].final_path].len = mv[o].final_bytes
        /\ ~HasMeta(fs, J)

\* -------------------------------------------------------- event stream
\* Specification StreamSpec: what the runs and the sockets of job J do to the
\* registry and to each other, step by step between two awaits that can
\* suspend: a body is read chunk by chunk, a callback posted, and a _broadcast
\* or _close_clients copies the clients set in its JOB_LOCK section, serves the
\* first socket and goes on to the others one await at a time. The files of the
\* run are left out; a run fails where its body can fail.
StreamSubs == 1..(MaxSubs + 1)
StreamChunks == MaxChunks + 1
\* the Content-Length of a body sent with a Content-Encoding: the length of the
\* encoded bytes, not of those iter_chunked yields
EncodedLength == ChunkBytes - 1

IdleRun ==
    [pc |-> "idle", mode |-> "none", body |-> 0, n |-> 0, total |-> NoneT, k |-> 0,
     copy |-> {}, message |-> NoneD, after |-> "idle", ok |-> FALSE, cb |-> "none", ncb |-> 0,
     gone |-> FALSE]
\* the locals of a run, dropped when it ends
RunLocals == [body |-> 0, n |-> 0, total |-> NoneT, k |-> 0, ok |-> FALSE]
IdleSub == [st |-> "idle", first |-> "none", bytes |-> 0, shrunk |-> FALSE, missed |-> FALSE]
\* the sockets that wait in the copy of a broadcast for its complete event
AwaitComplete ==
    UNION {proc[r].copy : r \in {o \in RunIds : proc[o].pc = "send" /\ proc[o].message.event = "complete"}}

StreamInit ==
    /\ JOB_STATE = [j \in {} |-> DefaultState]
    /\ fs = [q \in {} |-> DirEntry]
    /\ proc = [r \in RunIds |-> IdleRun]
    /\ mv = [m \in MoveIds |-> IdleMove]
    /\ ws = [s \in StreamSubs |-> IdleSub]
    /\ req = IdleReq
    /\ config = Configured
    /\ clock = 0

\* a faulty variant: JOB_LOCK keeps nobody out
NeverLocked == FALSE
\* JOB_LOCK is held by transfer_ws from clients.add to the end of send_json
JOB_LOCK == \E s \in StreamSubs : ws[s].st = "joining"

\* ws.send_json(message) and ws.close() on socket s: a socket that is closed or
\* gone takes nothing (the exception is swallowed); while it is connected a
\* socket remembers its first message, the bytes of its last progress message
\* and whether bytes went down; a closed one remembers whether it was closed
\* while a complete event was still to be sent to it
send_json(W, s, message) ==
    IF W[s].st \notin {"joining", "open"} THEN W
    ELSE IF message.event = "close"
    THEN [W EXCEPT ![s] = [IdleSub EXCEPT !.st = "closed", !.missed = s \in AwaitComplete]]
    ELSE [W EXCEPT ![s] =
            [@ EXCEPT !.first = IF @ = "none" THEN message.event ELSE @,
                      !.bytes = IF message.event \in {"snapshot", "progress"}
                                THEN message.bytes ELSE @,
                      !.shrunk = @ \/ (message.event = "progress" /\ message.bytes < W[s].bytes)]]

\* the run goes on at pc
Step(pc) == IF pc = "done" THEN [pc |-> pc] @@ RunLocals ELSE [pc |-> pc]

\* _broadcast(job_id, message) after the registry has become S, and
\* _close_clients (message "close", which also empties the clients set): the
\* JOB_LOCK section and the first send; the run goes on at "after" once every
\* socket of the copy was served
Broadcast(r, S, message, after, upd) ==
    LET clients == IF J \in DOMAIN S THEN S[J].clients ELSE {} IN
    /\ ~JOB_LOCK
    /\ JOB_STATE' = IF message.event = "close" THEN close_clients_state(S, J) ELSE S
    /\ IF clients = {}
       THEN /\ ws' = ws
            /\ proc' = [proc EXCEPT ![r] = Merge(@, Step(after) @@ upd)]
       ELSE \E s \in clients :
              /\ ws' = send_json(ws, s, message)
              /\ proc' = [proc EXCEPT ![r] =
                            Merge(@, (IF clients = {s} THEN Step(after)
                                      ELSE [pc |-> "send", after |-> after, message |-> message,
                                            copy |-> clients \ {s}]) @@ upd)]
    /\ UNCHANGED << fs, mv, req, config, clock >>

\* main.py lines 969-974 and 984-988: the next socket of the copy
broadcast_next(r) ==
    /\ proc[r].pc = "send"
    /\ \E s \in proc[r].copy :
         /\ ws' = send_json(ws, s, proc[r].message)
         /\ proc' = [proc EXCEPT ![r] =
                        Merge(@, IF proc[r].copy = {s}
                                 THEN Step(proc[r].after)
                                        @@ [copy |-> {}, message |-> NoneD, after |-> "idle"]
                                 ELSE [copy |-> proc[r].copy \ {s}])]
    /\ UNCHANGED << JOB_STATE, fs, mv, req, config, clock >>

\* a step of run r in a JOB_LOCK section that sends nothing
Locked(r, S, upd) ==
    /\ ~JOB_LOCK
    /\ JOB_STATE' = S
    /\ proc' = [proc EXCEPT ![r] = Merge(@, upd)]
    /\ UNCHANGED << fs, mv, ws, req, config, clock >>

\* main.py lines 196-210: a known job is answered with its status, a new one
\* gets its entry
start_request(r) ==
    /\ proc[r].pc = "idle"
    /\ \A o \in RunIds : o < r => proc[o].pc # "idle"
    /\ IF J \in DOMAIN JOB_STATE
       THEN Locked(r, JOB_STATE, [pc |-> "done", mode |-> "start"])
       ELSE Locked(r, Put(JOB_STATE, J, NewState("pending", NoneT)),
                   [pc |-> "spawned", mode |-> "download"])

\* a faulty variant: the task starts only while the client of its request is there
download_begin_attached(r) ==
    /\ proc[r].pc = "spawned"
    /\ ~proc[r].gone
    /\ Broadcast(r, set_stage_state(set_state(JOB_STATE, J, [status |-> "downloading",
                                                             error |-> "None"]),
                                    J, "downloading"),
                 [event |-> "stage", stage |-> "downloading"], "get", [k |-> 0])
\* main.py lines 232-234 and 1200-1201: the task created by asyncio.create_task
\* starts, whatever becomes of the request; status and stage "downloading"
download_begin(r) ==
    /\ proc[r].pc = "spawned"
    /\ Broadcast(r, set_stage_state(set_state(JOB_STATE, J, [status |-> "downloading",
                                                             error |-> "None"]),
                                    J, "downloading"),
                 [event |-> "stage", stage |-> "downloading"], "get", [k |-> 0])

\* main.py lines 1212-1234: the upstream server answers 200 with a body of some
\* chunks; total is its Content-Length header, if it has one
download_response(r) ==
    /\ proc[r].pc = "get"
    /\ \E body \in 1..StreamChunks :
       \E total \in {NoneT, Some(body * ChunkBytes), Some(EncodedLength)} :
          Locked(r, set_state(JOB_STATE, J, [total |-> total]),
                 [pc |-> "stream", body |-> body, total |-> total])

\* main.py lines 414-442: the JOB_LOCK section of an upload (an entry that is
\* there is kept and reset), then the stage "uploading"; total is the
\* Content-Length of the request
upload_request(r) ==
    /\ proc[r].pc = "idle"
    /\ \A o \in RunIds : o < r => proc[o].pc # "idle"
    /\ \E body \in 1..StreamChunks :
       \E total \in {NoneT, Some(body * ChunkBytes)} :
          Locked(r,
                 IF J \in DOMAIN JOB_STATE
                 THEN Put(JOB_STATE, J, Merge(JOB_STATE[J], [status |-> "uploading", bytes |-> 0,
                                                             total |-> total, error |-> "None"]))
                 ELSE Put(JOB_STATE, J, NewState("uploading", total)),
                 [pc |-> "opened", mode |-> "upload", body |-> body, total |-> total])
upload_begin(r) ==
    /\ proc[r].pc = "opened"
    /\ Broadcast(r, set_stage_state(JOB_STATE, J, "uploading"),
                 [event |-> "stage", stage |-> "uploading"], "stream", [k |-> 0])

\* main.py lines 453-488 and 1258-1295: one chunk; it is pushed if the push
\* interval has passed
chunk(r) ==
    /\ proc[r].pc = "stream"
    /\ proc[r].n < proc[r].body * ChunkBytes
    /\ LET n == proc[r].n + ChunkBytes IN
       \E push \in PushChoices(n) :
          IF push
          THEN Broadcast(r, set_state(JOB_STATE, J, [bytes |-> n]),
                         [event |-> "progress", bytes |-> n], "stream", [n |-> n])
          ELSE /\ proc' = [proc EXCEPT ![r].n = n]
               /\ UNCHANGED << JOB_STATE, fs, mv, ws, req, config, clock >>

\* main.py lines 507 and 1297: the body has ended
body_end(r) ==
    /\ proc[r].pc = "stream"
    /\ proc[r].n = proc[r].body * ChunkBytes
    /\ Locked(r, set_state(JOB_STATE, J, [status |-> "done", bytes |-> proc[r].n,
                                          total |-> proc[r].total]),
              [pc |-> "stages", k |-> 1])

\* the stages a run publishes from the end of its body on (main.py lines 558,
\* 1311, 1026, 1140)
Stages(mode) ==
    << IF mode = "download" THEN "downloaded" ELSE "uploaded", "repacking", "packed" >>
stage(r) ==
    /\ proc[r].pc = "stages"
    /\ Broadcast(r, set_stage_state(JOB_STATE, J, Stages(proc[r].mode)[proc[r].k]),
                 [event |-> "stage", stage |-> Stages(proc[r].mode)[proc[r].k]],
                 IF proc[r].k = Len(Stages(proc[r].mode)) THEN "complete" ELSE "stages",
                 [k |-> proc[r].k + 1])

\* main.py lines 648-656 and 1336-1344
complete(r) ==
    /\ proc[r].pc = "complete"
    /\ LET message == [event |-> "complete", bytes |-> proc[r].n, total |-> proc[r].total]
       IN Broadcast(r, JOB_STATE, message, "notify", [ok |-> TRUE])

\* main.py lines 672-696 and 1354-1377: the body cannot be read
fail(r) ==
    /\ proc[r].pc \in {"get", "stream"}
    /\ Broadcast(r, set_state(JOB_STATE, J, [status |-> "error", error |-> "exc"]),
                 [event |-> "error"], "notify", [k |-> 0])

\* _notify_manager: the POST of the callback
notify(r) ==
    /\ proc[r].pc = "notify"
    /\ proc' = [proc EXCEPT ![r] =
                  Merge(@, [pc |-> "close", ncb |-> proc[r].ncb + 1,
                            cb |-> IF proc[r].ok THEN "success" ELSE "error"])]
    /\ UNCHANGED << JOB_STATE, fs, mv, ws, req, config, clock >>

\* "finally: await _close_clients(job_id)"
close_clients(r) ==
    /\ proc[r].pc = "close"
    /\ Broadcast(r, JOB_STATE, [event |-> "close"], "done", [k |-> 0])

\* main.py lines 712-726: the socket is accepted, JOB_LOCK taken and the socket
\* added to the clients set
connect(s) ==
    /\ ws[s].st = "idle"
    /\ \A o \in StreamSubs : o < s => ws[o].st # "idle"
    /\ ~JOB_LOCK
    /\ LET S1 == IF J \in DOMAIN JOB_STATE THEN JOB_STATE ELSE Put(JOB_STATE, J, DefaultState)
       IN JOB_STATE' = Put(S1, J, Merge(S1[J], [clients |-> S1[J].clients \cup {s}]))
    /\ ws' = [ws EXCEPT ![s].st = "joining"]
    /\ UNCHANGED << fs, proc, mv, req, config, clock >>

\* main.py lines 727-735: the snapshot is sent and JOB_LOCK released
snapshot(s) ==
    /\ ws[s].st = "joining"
    /\ ws' = [send_json(ws, s, [event |-> "snapshot", bytes |-> JOB_STATE[J].bytes])
                EXCEPT ![s].st = "open"]
    /\ UNCHANGED << JOB_STATE, fs, proc, mv, req, config, clock >>

\* main.py lines 736-746: the client goes away
disconnect(s) ==
    /\ ws[s].st = "open"
    /\ ~JOB_LOCK
    /\ JOB_STATE' = IF J \in DOMAIN JOB_STATE
                    THEN Put(JOB_STATE, J, Merge(JOB_STATE[J],
                                                 [clients |-> JOB_STATE[J].clients \ {s}]))
                    ELSE JOB_STATE
    /\ ws' = [ws EXCEPT ![s] = [IdleSub EXCEPT !.st = "gone"]]
    /\ UNCHANGED << fs, proc, mv, req, config, clock >>

StreamNext ==
    \/ \E r \in RunIds : start_request(r)
    \/ \E r \in RunIds : download_begin(r)
    \/ \E r \in RunIds : download_response(r)
    \/ \E r \in RunIds : upload_request(r)
    \/ \E r \in RunIds : upload_begin(r)
    \/ \E r \in RunIds : chunk(r)
    \/ \E r \in RunIds : body_end(r)
    \/ \E r \in RunIds : stage(r)
    \/ \E r \in RunIds : complete(r)
    \/ \E r \in RunIds : fail(r)
    \/ \E r \in RunIds : notify(r)
    \/ \E r \in RunIds : close_clients(r)
    \/ \E r \in RunIds : broadcast_next(r)
    \/ \E s \in StreamSubs : connect(s)
    \/ \E s \in StreamSubs : snapshot(s)
    \/ \E s \in StreamSubs : disconnect(s)

StreamSpec == StreamInit /\ [][StreamNext]_vars

\* C13: the first message a subscriber is sent is the snapshot; no stage,
\* progress, complete or error event of a run reaches it before, however its
\* connect interleaves with the runs of the job
C13_SnapshotFirst ==
    \A s \in StreamSubs : ws[s].first \in {"none", "snapshot"}

\* a run is in the middle of a progress broadcast: socket o is still in its
\* copy, and socket s, which connected before o and is still open, has been
\* served, after the snapshot it got first
C13_Witness ==
    \E r \in RunIds : \E s, o \in StreamSubs :
        /\ proc[r].pc = "send"
        /\ proc[r].message.event = "progress"
        /\ o \in proc[r].copy
        /\ s < o
        /\ s \notin proc[r].copy
        /\ ws[s].st = "open"
        /\ ws[s].first = "snapshot"
        /\ ws[s].bytes = proc[r].message.bytes

\* C14: a successful run broadcasts complete, then posts the callback, then
\* closes the subscribers; no subscriber that was attached when the complete
\* broadcast copied the clients set is closed before complete was sent to it
C14_CompleteCallbackClose ==
    /\ \A r \in RunIds :
          /\ (proc[r].pc = "send" /\ proc[r].message.event = "complete") => proc[r].ncb = 0
          /\ (proc[r].pc = "notify" /\ proc[r].ok) => proc[r].ncb = 0
          /\ (proc[r].pc = "close" /\ proc[r].ok) => proc[r].cb = "success"
    /\ \A s \in StreamSubs : ~ws[s].missed

\* C15: the bytes of a progress event a subscriber is sent are never below the
\* bytes of the progress event or snapshot it was sent before
C15_BytesNeverDecrease ==
    \A s \in StreamSubs : ~ws[s].shrunk

\* C16: a run that emits complete with a known total emits bytes equal to it
C16_CompleteBytesEqualTotal ==
    \A r \in RunIds :
        (proc[r].ok /\ proc[r].total # NoneT) => proc[r].n = proc[r].total[1]
\* the snapshot send_json of socket s has been started and has not returned
Sending(s) == ws[s].st = "joining"

\* C32: no network send is under way while JOB_LOCK is held
C32_NoIoUnderLock == ~(JOB_LOCK /\ \E s \in StreamSubs : Sending(s))

\* ------------------------------------------------------------ the task
\* Specification LiveSpec: the start requests of job J, the download task the
\* first of them spawns with asyncio.create_task, and the sockets of the job.
\* The client of the request may go away at any moment from the spawn on. The
\* event loop runs a task that can take a step: the GET is answered or breaks
\* (the session has a total timeout), a body ends or breaks, 7z returns, the
\* POST of the callback returns, a send to a socket returns; and a socket that
\* holds JOB_LOCK gets its snapshot.

\* the client of the /transfer/start request goes away, before or after it is
\* answered (lines 236-240); nothing in the task reads the request
start_client_gone(r) ==
    /\ proc[r].mode = "download"
    /\ proc[r].pc # "done"
    /\ ~proc[r].gone
    /\ proc' = [proc EXCEPT ![r].gone = TRUE]
    /\ UNCHANGED << JOB_STATE, fs, mv, ws, req, config, clock >>

\* a step of the download task of request r
run_download_job(r) ==
    \/ download_begin(r)
    \/ download_response(r)
    \/ proc[r].mode = "download" /\ chunk(r)
    \/ proc[r].mode = "download" /\ body_end(r)
    \/ proc[r].mode = "download" /\ stage(r)
    \/ proc[r].mode = "download" /\ complete(r)
    \/ proc[r].mode = "download" /\ fail(r)
    \/ proc[r].mode = "download" /\ notify(r)
    \/ proc[r].mode = "download" /\ close_clients(r)
    \/ proc[r].mode = "download" /\ broadcast_next(r)

LiveNext ==
    \/ \E r \in RunIds : start_request(r)
    \/ \E r \in RunIds : start_client_gone(r)
    \/ \E r \in RunIds : download_begin(r)
    \/ \E r \in RunIds : download_response(r)
    \/ \E r \in RunIds : chunk(r)
    \/ \E r \in RunIds : body_end(r)
    \/ \E r \in RunIds : stage(r)
    \/ \E r \in RunIds : complete(r)
    \/ \E r \in RunIds : fail(r)
    \/ \E r \in RunIds : notify(r)
    \/ \E r \in RunIds : close_clients(r)
    \/ \E r \in RunIds : broadcast_next(r)
    \/ \E s \in StreamSubs : connect(s)
    \/ \E s \in StreamSubs : snapshot(s)
    \/ \E s \in StreamSubs : disconnect(s)

LiveSpec ==
    /\ StreamInit
    /\ [][LiveNext]_vars
    /\ \A r \in RunIds : WF_vars(run_download_job(r))
    /\ \A s \in StreamSubs : WF_vars(snapshot(s))

StallSpec ==
    /\ StreamInit
    /\ [][LiveNext]_vars
    /\ \A r \in RunIds : WF_vars(run_download_job(r))

\* C33: a spawned download task ends whether or not the sends to the
\* subscribers return
C33_StalledSubscriberHarmless ==
    \A r \in RunIds : (proc[r].pc = "spawned") ~> (proc[r].pc = "done")
\* C36: a socket that is attached to the job when its download task has ended,
\* or attaches afterwards, is closed by the server (unless its client leaves)
C36_SubscribersClosedAfterEnd ==
    \A r \in RunIds : \A s \in StreamSubs :
        (proc[r].mode = "download" /\ proc[r].pc = "done" /\ ws[s].st \in {"joining", "open"})
            ~> (ws[s].st \in {"closed", "gone"})
====
